---- MODULE Spec2Model ----
(***************************************************************************)
(* Model of the LifeMaster health API (src/index.js): the consent-gated    *)
(* tool-calling loop of POST /agent/chat, the /agent/* endpoints it calls, *)
(* the Progress Analyzer, and the /health/daily normalisation pipeline     *)
(* with its change detector.                                               *)
(***************************************************************************)
EXTENDS Integers, Sequences, FiniteSets, TLC

VARIABLES
    store,            \* rows of table lifemaster_progress, in insertion order
    apiKey,           \* process.env.OPENAI_API_KEY is set
    pc,               \* position of the /agent/chat handler
    message,          \* req.body.message, as the set of words it contains
    hasConsent,       \* const hasConsent of the turn
    messages,         \* the messages array sent to the engine
    responseMessage,  \* the last engine message
    iteration,        \* loop counter of the tool loop
    callIdx,          \* index of the next tool call of responseMessage.tool_calls
    toolTrace,        \* toolTrace array
    committed,        \* let committed
    response,         \* what res.status(..).json(..) sent, or NoResponse
    engineCalls,      \* number of tool-enabled openai.chat.completions.create calls
    commitRequests,   \* number of fetches of /agent/commit made by the turn
    analyzerCalls,    \* number of analyze_and_persist_progress calls of the turn
    requested,        \* number of tool calls the engine has requested so far
    analysis,         \* how the turn's analyze_and_persist_progress call ended
    dpc,              \* position of the /health/daily handler
    measureRes,       \* let measureRes: the provider's answer to getmeas
    sleepRes,         \* let sleepRes: the provider's answer to getsummary
    snapshot,         \* const snapshot
    dataPoints,       \* const dataPoints
    recentMeasurements, \* the row read for change detection
    shouldTriggerAgent, \* let shouldTriggerAgent
    dailyResponse,    \* what the /health/daily handler sent
    dailyAnalysis,    \* how the poll's analyze_and_persist_progress call ended
    direct,           \* the last request made to /agent/state, /agent/event or
                      \* /agent/commit from outside, and its answer
    clock,            \* Date.now() of the server
    writers,          \* requests that write a row: position and stamped payload
    tokenRecord,      \* the stored token record (tokens.json / withings_tokens)
    callers,          \* invocations of getValidAccessToken: position and locals
    tokenRequests,    \* refresh requests sent to the provider, in order
    tokenWrites,      \* token records written by saveTokens, in order
    issued,           \* number of token pairs the provider has issued
    callback,         \* the last /auth/withings/callback request and its answer
    analyzer,         \* one call of analyze_and_persist_progress, step by step:
                      \* position, input, the engine's analysis, operations made
    stateReads,       \* the answers of GET /agent/state requests, in order
    polls             \* concurrent /health/daily requests at their trigger block

chatVars == <<pc, message, hasConsent, messages, responseMessage, iteration,
              callIdx, toolTrace, committed, response, engineCalls,
              commitRequests, analyzerCalls, requested, analysis>>

dailyVars == <<dpc, measureRes, sleepRes, snapshot, dataPoints,
               recentMeasurements, shouldTriggerAgent, dailyResponse,
               dailyAnalysis>>

\* what the requests to the other endpoints keep
writerVars == <<clock, writers>>

tokenVars == <<tokenRecord, callers, tokenRequests, tokenWrites, issued, callback>>

traceVars == <<analyzer, stateReads, polls>>

sideVars == <<direct, writerVars, tokenVars, traceVars>>

vars == <<store, apiKey, chatVars, dailyVars, sideVars>>

-----------------------------------------------------------------------------
(* Bounds of the model *)

\* total number of tool calls the engine requests in one chat turn
MaxToolCalls == 2

-----------------------------------------------------------------------------
(* Snapshot shape *)

Keys == {"weight_kg", "heart_pulse_bpm", "spo2_pct", "hrv", "sleep_score",
         "sleep_duration_minutes"}

\* JavaScript null / undefined of a numeric field (real values are >= 0)
Null == -1

\* JavaScript undefined: a property the object does not have
Undefined == -2

\* const snapshot = { weight_kg: null, ... }
EmptySnapshot == [k \in Keys |-> Null]

\* {}: an object without any of the fields
EmptyObject == [k \in Keys |-> Undefined]

-----------------------------------------------------------------------------
(* POST /agent/chat *)

MAX_ITERATIONS == 5

\* the three literal consent words of the regular expression
ConsentTokens == {"maasher", "teadken", "batsea"}

\* /maasher|teadken|batsea/.test(message)
ConsentRegexTest(m) == m \cap ConsentTokens # {}

\* the user messages tried: the empty string, a message without consent
\* words, and messages with a consent word
Messages == { {}, {"shalom"}, {"ochel", "teadken"} }

\* no response sent yet
NoResponse ==
    [status |-> 0, reply |-> "", committed |-> FALSE, tool_trace |-> <<>>]

NoMessage == [content |-> "", has_tool_calls |-> FALSE, tool_calls |-> <<>>]

\* JSON.parse(toolCall.function.arguments): the argument strings the engine
\* emits here are an empty object, an object with a consent object whose
\* status is "granted" or "denied" and whose granted_at is the engine's, and
\* a string that is not JSON
JSONparse(s) ==
    CASE s = "{}" ->
           [ok |-> TRUE, consent |-> "absent", granted_at |-> "absent"]
      [] s = "{consent}" ->
           [ok |-> TRUE, consent |-> "granted", granted_at |-> "engine"]
      [] s = "{consent: denied}" ->
           [ok |-> TRUE, consent |-> "denied", granted_at |-> "engine"]
      [] OTHER ->
           [ok |-> FALSE, consent |-> "absent", granted_at |-> "absent"]

\* what one requested tool call can be
CallKinds ==
    { [name |-> "get_agent_state",       arguments |-> "{}"],
      [name |-> "create_agent_event",    arguments |-> "{}"],
      [name |-> "commit_agent_decision", arguments |-> "{consent}"],
      [name |-> "commit_agent_decision", arguments |-> "{consent: denied}"],
      [name |-> "commit_agent_decision", arguments |-> "{}"],
      [name |-> "create_agent_event",    arguments |-> "not json"],
      [name |-> "no_such_tool",          arguments |-> "{}"] }

ToolCallLists(n) == UNION { [1..k -> CallKinds] : k \in 0..n }

\* the engine gives every tool call an id
WithIds(calls, base) ==
    [i \in 1..Len(calls) |-> [id |-> base + i, function |-> calls[i]]]

\* text of an engine message: null/empty, or a text
Contents == {"", "text"}


\* what the engine may answer when `req` tool calls were requested before
EngineMessages(req) ==
    { [content |-> c, has_tool_calls |-> FALSE, tool_calls |-> <<>>] :
        c \in Contents }
    \cup
    { [content |-> c, has_tool_calls |-> TRUE, tool_calls |-> WithIds(l, req)] :
        c \in Contents, l \in ToolCallLists(MaxToolCalls - req) }

ErrorResponse(s) ==
    [status |-> s, reply |-> "", committed |-> FALSE, tool_trace |-> <<>>]

\* rows written to lifemaster_progress
UserMessageEntry ==
    [entry_type |-> "event", source |-> "manual", title |-> "User message",
     consent |-> "none", granted_at |-> "none", has_metrics |-> FALSE,
     metrics |-> EmptySnapshot]

\* eventPayload of create_agent_event (metrics: functionArgs.metrics || {})
EventPayload(args) ==
    [entry_type |-> "event", source |-> "agent", title |-> "agent event",
     consent |-> "none", granted_at |-> "none", has_metrics |-> TRUE,
     metrics |-> EmptyObject]

\* commitPayload of commit_agent_decision: consent.status and
\* consent.granted_at are set by the server, whatever the engine supplied
\* (variant: the consent object of the arguments is passed on)
CommitPayload_EngineConsent(args) ==
    [entry_type |-> "decision", source |-> "agent", title |-> "agent decision",
     consent |-> args.consent, granted_at |-> args.granted_at,
     has_metrics |-> FALSE, metrics |-> EmptySnapshot]

CommitPayload(args) ==
    [entry_type |-> "decision", source |-> "agent", title |-> "agent decision",
     consent |-> "granted", granted_at |-> "server", has_metrics |-> FALSE,
     metrics |-> EmptySnapshot]

\* GET /agent/state
AgentStateHandler(st, dbOk) ==
    IF dbOk THEN [status |-> 200, body |-> "entries", store |-> st]
    ELSE [status |-> 500, body |-> "error", store |-> st]

\* POST /agent/event
\* (variant: the write replaces the newest row instead of adding one)
AgentEventHandler_Overwrites(body, st, dbOk) ==
    IF dbOk
    THEN [status |-> 200, body |-> "saved",
          store |-> IF st = <<>> THEN << body >>
                    ELSE [st EXCEPT ![Len(st)] = body]]
    ELSE [status |-> 500, body |-> "error", store |-> st]

AgentEventHandler(body, st, dbOk) ==
    IF dbOk THEN [status |-> 200, body |-> "saved", store |-> Append(st, body)]
    ELSE [status |-> 500, body |-> "error", store |-> st]

\* POST /agent/commit
\* (variant: only a missing consent object is refused)
AgentCommitHandler_AnyConsentObject(body, st, dbOk) ==
    IF body.consent = "none"
    THEN [status |-> 403, body |-> "error", store |-> st]
    ELSE IF dbOk
         THEN [status |-> 200, body |-> "committed", store |-> Append(st, body)]
         ELSE [status |-> 500, body |-> "error", store |-> st]

AgentCommitHandler(body, st, dbOk) ==
    IF body.consent # "granted"
    THEN [status |-> 403, body |-> "error", store |-> st]
    ELSE IF dbOk
         THEN [status |-> 200, body |-> "committed", store |-> Append(st, body)]
         ELSE [status |-> 500, body |-> "error", store |-> st]

\* what can go wrong while a tool is executed: the fetch of the endpoint
\* throws, or the endpoint's insert/select fails
Faults == {"none", "network", "store"}

\* if (!hasConsent) of the commit_agent_decision branch
ConsentGate_FromArgs(hc, args) == hc \/ args.consent = "granted"

ConsentGate(hc, args) == hc

\* the try block of the tool loop: the result handed back to the engine,
\* the store afterwards and the number of /agent/commit requests made
ExecuteTool(name, args, hc, st, fault) ==
    CASE name = "get_agent_state" ->
           IF fault = "network"
           THEN [result |-> "error", store |-> st, commit_requests |-> 0]
           ELSE LET r == AgentStateHandler(st, fault # "store")
                IN  [result |-> r.body, store |-> r.store, commit_requests |-> 0]
      [] name = "create_agent_event" ->
           IF fault = "network"
           THEN [result |-> "error", store |-> st, commit_requests |-> 0]
           ELSE LET r == AgentEventHandler(EventPayload(args), st, fault # "store")
                IN  [result |-> r.body, store |-> r.store, commit_requests |-> 0]
      [] name = "commit_agent_decision" ->
           IF ~ConsentGate(hc, args)
           THEN [result |-> "consent_error", store |-> st, commit_requests |-> 0]
           ELSE IF args.consent = "absent"
           THEN \* functionArgs.consent.scope throws a TypeError
                [result |-> "error", store |-> st, commit_requests |-> 0]
           ELSE IF fault = "network"
           THEN [result |-> "error", store |-> st, commit_requests |-> 1]
           ELSE LET r == AgentCommitHandler(CommitPayload(args), st, fault # "store")
                IN  [result |-> r.body, store |-> r.store, commit_requests |-> 1]
      [] OTHER -> [result |-> "undefined", store |-> st, commit_requests |-> 0]

\* while (responseMessage.tool_calls && iteration < MAX_ITERATIONS)
LoopContinues_OffByOne(rm, it) == rm.has_tool_calls /\ it <= MAX_ITERATIONS

LoopContinues(rm, it) == rm.has_tool_calls /\ it < MAX_ITERATIONS

\* assistantReply = responseMessage.content || "No response generated"
AssistantReply(rm) ==
    IF rm.content = "" THEN "No response generated" ELSE rm.content

\* const hasConsent: the value threaded through the dispatch of a tool call
ThreadedConsent_SelfGrant(hc, args) == hc \/ args.consent = "granted"

ThreadedConsent(hc, args) == hc

\* toolTrace.push({function, arguments}) at the head of every dispatch
PushTrace_OnSuccessOnly(trace, name, args, result) ==
    IF result \in {"error", "consent_error"} THEN trace
    ELSE Append(trace, [function |-> name, arguments |-> args])

PushTrace(trace, name, args, result) ==
    Append(trace, [function |-> name, arguments |-> args])

\* if (functionResult.status === "committed") committed = true
CommittedAfter_OnRequest(was, result, requests) == was \/ requests > 0

CommittedAfter(was, result, requests) == was \/ result = "committed"

Msg(role, id, content, calls) ==
    [role |-> role, tool_call_id |-> id, content |-> content, tool_calls |-> calls]

\* where the loop goes after a dispatched call, whatever its result: to the
\* next call of the message, or to the next engine call
\* (variant: an error result ends the round)
AfterDispatch_ErrorEndsRound(result, idx, n) ==
    IF result # "error" /\ idx < n THEN "dispatch" ELSE "engine"

AfterDispatch(result, idx, n) == IF idx < n THEN "dispatch" ELSE "engine"

\* messages.push({role: "tool", tool_call_id: toolCall.id, content}) at the
\* end of every dispatch
\* (variant: nothing is pushed for a call that was rejected or failed)
PushToolResult_SkipsErrors(msgs, id, result) ==
    IF result \in {"error", "consent_error", "undefined"} THEN msgs
    ELSE Append(msgs, Msg("tool", id, result, <<>>))

PushToolResult(msgs, id, result) == Append(msgs, Msg("tool", id, result, <<>>))

\* chatEntryType: nutrition or training words, then behaviour-change words
NutritionWords ==
    {"achalti", "ochel", "tzuna", "arucha", "sandwich", "pachmimot", "chelbon"}

TrainingWords == {"imun", "hitamen", "koach", "cardio", "shririm"}

ChangeWords == {"matchil", "atchil", "ashane", "afsik"}

\* (variant: the behaviour-change words are tested first)
ChatEntryType_ChangeFirst(m) ==
    IF m \cap ChangeWords # {} THEN "intervention"
    ELSE IF m \cap NutritionWords # {} THEN "adherence"
    ELSE IF m \cap TrainingWords # {} THEN "adherence"
    ELSE "insight"

ChatEntryType(m) ==
    IF m \cap NutritionWords # {} THEN "adherence"
    ELSE IF m \cap TrainingWords # {} THEN "adherence"
    ELSE IF m \cap ChangeWords # {} THEN "intervention"
    ELSE "insight"

\* .not('metrics', 'is', null).order('entry_ts', desc).limit(1), or the placeholder
\* (variant: only the measurement entries of the provider are read)
CurrentSnapshot_MeasurementsOnly(st) ==
    LET idx == {i \in 1..Len(st) :
                   st[i].has_metrics /\ st[i].source = "withings"}
    IN  IF idx = {} THEN EmptySnapshot
        ELSE st[CHOOSE i \in idx : \A j \in idx : j <= i].metrics

CurrentSnapshot(st) ==
    LET idx == {i \in 1..Len(st) : st[i].has_metrics}
    IN  IF idx = {} THEN EmptySnapshot
        ELSE st[CHOOSE i \in idx : \A j \in idx : j <= i].metrics

-----------------------------------------------------------------------------
(* Progress Analyzer *)

\* how one call of analyze_and_persist_progress can end
AnalyzerOutcomes ==
    {"ok", "history_error", "engine_error", "parse_error", "insert_error"}

\* analyze_and_persist_progress(input): whether it returned or threw, the
\* store afterwards and the number of engine calls it made
\* (variant: the error of the insert is not looked at)
analyze_and_persist_progress_SaveErrorIgnored(snap, source, entry_type, st, key, outcome) ==
    IF ~key THEN [ok |-> FALSE, store |-> st, engine_calls |-> 0]
    ELSE IF outcome = "history_error"
    THEN [ok |-> FALSE, store |-> st, engine_calls |-> 0]
    ELSE IF outcome \in {"engine_error", "parse_error"}
    THEN [ok |-> FALSE, store |-> st, engine_calls |-> 1]
    ELSE IF outcome = "insert_error"
    THEN [ok |-> TRUE, store |-> st, engine_calls |-> 1]
    ELSE [ok |-> TRUE,
          store |-> Append(st,
              [entry_type |-> entry_type, source |-> source,
               title |-> "summary", consent |-> "none", granted_at |-> "none",
               has_metrics |-> TRUE, metrics |-> snap]),
          engine_calls |-> 1]

analyze_and_persist_progress(snap, source, entry_type, st, key, outcome) ==
    IF ~key THEN [ok |-> FALSE, store |-> st, engine_calls |-> 0]
    ELSE IF outcome = "history_error"
    THEN [ok |-> FALSE, store |-> st, engine_calls |-> 0]
    ELSE IF outcome \in {"engine_error", "parse_error", "insert_error"}
    THEN [ok |-> FALSE, store |-> st, engine_calls |-> 1]
    ELSE [ok |-> TRUE,
          store |-> Append(st,
              [entry_type |-> entry_type, source |-> source,
               title |-> "summary", consent |-> "none", granted_at |-> "none",
               has_metrics |-> TRUE, metrics |-> snap]),
          engine_calls |-> 1]

-----------------------------------------------------------------------------
(* Actions of a chat turn *)

\* the end of the handler: res.json({reply, committed, tool_trace}) when the
\* analysis returned, the catch block's 500 when it threw
ChatResponse_Tolerant(ok, reply, wasCommitted, trace) ==
    [status |-> 200, reply |-> reply, committed |-> wasCommitted,
     tool_trace |-> trace]

\* (variant: the 500 reports what the turn did)
ChatResponse_ReportsProgress(ok, reply, wasCommitted, trace) ==
    [status |-> IF ok THEN 200 ELSE 500, reply |-> IF ok THEN reply ELSE "",
     committed |-> wasCommitted, tool_trace |-> trace]

ChatResponse(ok, reply, wasCommitted, trace) ==
    IF ok
    THEN [status |-> 200, reply |-> reply, committed |-> wasCommitted,
          tool_trace |-> trace]
    ELSE ErrorResponse(500)

ChatStart(m) ==
    /\ pc = "idle"
    /\ message' = m
    /\ IF m = {}
       THEN /\ response' = ErrorResponse(400)
            /\ pc' = "done"
            /\ UNCHANGED <<store, hasConsent, messages>>
       ELSE IF ~apiKey
       THEN /\ response' = ErrorResponse(500)
            /\ pc' = "done"
            /\ UNCHANGED <<store, hasConsent, messages>>
       ELSE /\ hasConsent' = ConsentRegexTest(m)
            \* the result of this insert is not looked at
            /\ \E dbOk \in BOOLEAN :
                 store' = IF dbOk THEN Append(store, UserMessageEntry) ELSE store
            /\ messages' =
                 << Msg("system", 0,
                        IF ConsentRegexTest(m) THEN "GRANTED" ELSE "NOT GRANTED",
                        <<>>),
                    Msg("user", 0, "message", <<>>) >>
            /\ pc' = "engine"
            /\ UNCHANGED response
    /\ UNCHANGED <<apiKey, responseMessage, iteration, callIdx, toolTrace,
                   committed, engineCalls, commitRequests, analyzerCalls,
                   requested, analysis, dailyVars, sideVars>>

EngineCall ==
    /\ pc = "engine"
    /\ engineCalls' = engineCalls + 1
    /\ \/ \* openai.chat.completions.create throws
          /\ response' = ErrorResponse(500)
          /\ pc' = "done"
          /\ UNCHANGED <<messages, responseMessage, iteration, callIdx, requested>>
       \/ \E rm \in EngineMessages(requested) :
          /\ responseMessage' = rm
          /\ messages' = Append(messages,
                                Msg("assistant", 0, "", rm.tool_calls))
          /\ requested' = requested + Len(rm.tool_calls)
          /\ IF LoopContinues(rm, iteration)
             THEN /\ iteration' = iteration + 1
                  /\ callIdx' = 1
                  /\ pc' = IF rm.tool_calls = <<>> THEN "engine" ELSE "dispatch"
             ELSE /\ pc' = "analyze"
                  /\ UNCHANGED <<iteration, callIdx>>
          /\ UNCHANGED response
    /\ UNCHANGED <<store, apiKey, message, hasConsent, toolTrace, committed,
                   commitRequests, analyzerCalls, analysis, dailyVars, sideVars>>

DispatchToolCall ==
    /\ pc = "dispatch"
    /\ LET toolCall == responseMessage.tool_calls[callIdx]
           functionName == toolCall.function.name
           functionArgs == JSONparse(toolCall.function.arguments)
       IN  IF ~functionArgs.ok
           THEN \* JSON.parse throws outside the inner try block
                /\ response' = ErrorResponse(500)
                /\ pc' = "done"
                /\ UNCHANGED <<store, hasConsent, messages, callIdx, toolTrace,
                               committed, commitRequests>>
           ELSE \E fault \in Faults :
                LET r == ExecuteTool(functionName, functionArgs, hasConsent,
                                     store, fault)
                IN  /\ toolTrace' = PushTrace(toolTrace, functionName,
                                              functionArgs, r.result)
                    /\ store' = r.store
                    /\ committed' = CommittedAfter(committed, r.result,
                                                   r.commit_requests)
                    /\ commitRequests' = commitRequests + r.commit_requests
                    /\ hasConsent' = ThreadedConsent(hasConsent, functionArgs)
                    /\ messages' = PushToolResult(messages, toolCall.id, r.result)
                    /\ pc' = AfterDispatch(r.result, callIdx,
                                            Len(responseMessage.tool_calls))
                    /\ callIdx' = IF pc' = "dispatch" THEN callIdx + 1
                                  ELSE callIdx
                    /\ UNCHANGED response
    /\ UNCHANGED <<apiKey, message, responseMessage, iteration, engineCalls,
                   analyzerCalls, requested, analysis, dailyVars, sideVars>>

ChatAnalyze ==
    /\ pc = "analyze"
    /\ analyzerCalls' = analyzerCalls + 1
    /\ \E outcome \in AnalyzerOutcomes :
         LET chatAnalysis ==
               analyze_and_persist_progress(CurrentSnapshot(store), "user",
                   ChatEntryType(message), store, apiKey, outcome)
         IN  /\ store' = chatAnalysis.store
             /\ analysis' = IF chatAnalysis.ok THEN "ok" ELSE outcome
             /\ response' = ChatResponse(chatAnalysis.ok,
                                 AssistantReply(responseMessage), committed,
                                 toolTrace)
    /\ pc' = "done"
    /\ UNCHANGED <<apiKey, message, hasConsent, messages, responseMessage,
                   iteration, callIdx, toolTrace, committed, engineCalls,
                   commitRequests, requested, dailyVars, sideVars>>

-----------------------------------------------------------------------------
(* GET /health/daily: the data the provider and the store can hold *)

\* Metric values are carried in tenths (70.4 kg is 704, 60 bpm is 600), so
\* that value * 10^unit stays an integer for the units -1 and 0; the sleep
\* fields are whole minutes and whole score points.

\* meastypes: '1,11,54,9,10,62'
MeasTypes == {1, 11, 54, 9, 10, 62}

Measure(t, v, u) == [type |-> t, value |-> v, unit |-> u]

\* the measures lists a measurement group can carry
GroupMeasures ==
    { << Measure(1, 700, -1), Measure(11, 60, 0), Measure(62, 50, 0) >>,
      << Measure(1, 704, -1), Measure(11, 64, 0) >>,
      << Measure(1, 705, -1) >>,
      << Measure(1, 706, -1) >>,
      << Measure(11, 65, 0) >>,
      << Measure(62, 55, 0) >>,
      << Measure(9, 80, 0), Measure(1, 70, 0) >> }

\* grp.date values (epoch seconds, shortened)
GroupDates == {100, 200}

Groups == { [date |-> d, measures |-> ms] : d \in GroupDates, ms \in GroupMeasures }

\* number of measurement groups in one provider response
MaxGroups == 2

GroupLists == UNION { [1..k -> Groups] : k \in 0..MaxGroups }

\* the day window [startTs, endTs) of the queried date (seconds, shortened)
DayWindow == [startTs |-> 1000, endTs |-> 2000]

Session(s, e, hasData, score, tst, tib) ==
    [startdate |-> s, enddate |-> e, has_data |-> hasData, sleep_score |-> score,
     total_sleep_time |-> tst, total_timeinbed |-> tib]

\* the series lists of a sleep summary response
SleepSeries ==
    { <<>>,
      << Session(900, 1400, TRUE, 48, 25200, 27000) >>,
      << Session(900, 1400, TRUE, Undefined, 28800, 30000) >>,
      << Session(900, 1400, TRUE, 50, 28680, 30000) >>,
      << Session(1100, 1200, TRUE, Undefined, 20, Undefined) >>,
      << Session(500, 900, TRUE, 70, 20000, 21000),
         Session(1900, 2400, TRUE, 48, 0, 25200) >>,
      << Session(1500, 1900, FALSE, Undefined, Undefined, Undefined) >>,
      << Session(900, 1400, TRUE, 48, 25200, 27000),
         Session(1600, 2400, TRUE, 70, 28800, 30000) >>,
      << Session(300, 1000, TRUE, 70, 20000, 21000) >> }

\* what a formPost call gives: it throws, or returns {status, body}
NoProviderResponse == [thrown |-> FALSE, status |-> -1, has_body |-> FALSE,
                       measuregrps |-> <<>>, series |-> <<>>]

MeasureResponses ==
    { [thrown |-> TRUE, status |-> -1, has_body |-> FALSE,
       measuregrps |-> <<>>, series |-> <<>>],
      [thrown |-> FALSE, status |-> 401, has_body |-> FALSE,
       measuregrps |-> <<>>, series |-> <<>>],
      [thrown |-> FALSE, status |-> 0, has_body |-> FALSE,
       measuregrps |-> <<>>, series |-> <<>>] }
    \cup
    { [thrown |-> FALSE, status |-> 0, has_body |-> TRUE,
       measuregrps |-> g, series |-> <<>>] : g \in GroupLists }

SleepResponses ==
    { [thrown |-> TRUE, status |-> -1, has_body |-> FALSE,
       measuregrps |-> <<>>, series |-> <<>>],
      [thrown |-> FALSE, status |-> 401, has_body |-> FALSE,
       measuregrps |-> <<>>, series |-> <<>>] }
    \cup
    { [thrown |-> FALSE, status |-> 0, has_body |-> TRUE,
       measuregrps |-> <<>>, series |-> x] : x \in SleepSeries }

Metrics(w, hr, hv, sl) ==
    [EmptySnapshot EXCEPT !["weight_kg"] = w, !["heart_pulse_bpm"] = hr,
                          !["hrv"] = hv, !["sleep_duration_minutes"] = sl]

\* a row written by an earlier poll
MeasurementEntry(m) ==
    [entry_type |-> "measurement", source |-> "withings", title |-> "summary",
     consent |-> "none", granted_at |-> "none", has_metrics |-> TRUE,
     metrics |-> m]

\* the progress table a poll can find: empty; holding only a chat message;
\* holding the entry of an earlier poll (a full one, one of a day without
\* sleep data, one of a day whose only sleep session lasted 20 seconds,
\* which rounds to 0 minutes)
DailyStores ==
    { <<>>,
      << UserMessageEntry >>,
      << MeasurementEntry(Metrics(700, 600, 500, 420)) >>,
      << MeasurementEntry(Metrics(700, 600, 500, Null)), UserMessageEntry >>,
      << MeasurementEntry(Metrics(Null, Null, Null, 0)) >> }

NoDailyResponse == [status |-> 0, snapshot |-> EmptySnapshot, data_points |-> <<>>]

-----------------------------------------------------------------------------
(* Measurement Normalizer *)

RECURSIVE Pow10(_)
Pow10(n) == IF n <= 0 THEN 1 ELSE 10 * Pow10(n - 1)

\* measure.value * Math.pow(10, measure.unit), in tenths
ActualValue(value, unit) == value * Pow10(unit + 1)

\* a > b of JavaScript for a number a: false when b is undefined
JsGreater(a, b) == IF b = Undefined THEN FALSE ELSE a > b

NoLatest == [present |-> FALSE, value |-> Null, ts |-> Null]

\* latestValues[meastype].date: the objects stored in latestValues have the
\* properties value, ts and raw, and no property date
DateOf(entry) == Undefined

\* the body of the inner loop: keep latest value per meastype
KeepLatest(latestValues, grp, measure) ==
    IF \/ ~latestValues[measure.type].present
       \/ JsGreater(grp.date, DateOf(latestValues[measure.type]))
    THEN [latestValues EXCEPT ![measure.type] =
             [present |-> TRUE,
              value |-> ActualValue(measure.value, measure.unit),
              ts |-> grp.date]]
    ELSE latestValues

RECURSIVE MeasuresLoop(_, _, _)
\* for (const measure of grp.measures)
MeasuresLoop(latestValues, grp, ms) ==
    IF ms = <<>> THEN latestValues
    ELSE MeasuresLoop(KeepLatest(latestValues, grp, Head(ms)), grp, Tail(ms))

RECURSIVE GroupsLoop(_, _)
\* for (const grp of measureRes.body.measuregrps)
GroupsLoop(latestValues, grps) ==
    IF grps = <<>> THEN latestValues
    ELSE GroupsLoop(MeasuresLoop(latestValues, Head(grps), Head(grps).measures),
                    Tail(grps))

LatestValues(grps) == GroupsLoop([t \in MeasTypes |-> NoLatest], grps)

\* typeMapping
TypeMapping(t) ==
    CASE t = 1  -> [key |-> "weight_kg",       snapshotKey |-> "weight_kg",       unit |-> "kg"]
      [] t = 11 -> [key |-> "heart_pulse_bpm", snapshotKey |-> "heart_pulse_bpm", unit |-> "bpm"]
      [] t = 54 -> [key |-> "spo2_pct",        snapshotKey |-> "spo2_pct",        unit |-> "%"]
      [] t = 62 -> [key |-> "hrv_ms",          snapshotKey |-> "hrv",             unit |-> "ms"]
      [] t = 9  -> [key |-> "diastolic_mmhg",  snapshotKey |-> "none",            unit |-> "mmHg"]
      [] t = 10 -> [key |-> "systolic_mmhg",   snapshotKey |-> "none",            unit |-> "mmHg"]

\* Object.entries(latestValues) lists integer keys in ascending order
EntriesOrder == <<1, 9, 10, 11, 54, 62>>

DataPoint(key, value, unit, ts) ==
    [key |-> key, value |-> value, unit |-> unit, ts |-> ts, source |-> "withings"]

\* the data points pushed for the retained readings
MeasureDataPoints(latestValues) ==
    LET kept == SelectSeq(EntriesOrder, LAMBDA t : latestValues[t].present)
    IN  [i \in 1..Len(kept) |->
            DataPoint(TypeMapping(kept[i]).key, latestValues[kept[i]].value,
                      TypeMapping(kept[i]).unit, latestValues[kept[i]].ts)]

\* snapshot[mapping.snapshotKey] = data.value
\* (variant: a field without a retained reading is put to 0)
MeasureSnapshot_ZeroDefault(latestValues) ==
    [k \in Keys |->
        IF \E t \in MeasTypes :
              latestValues[t].present /\ TypeMapping(t).snapshotKey = k
        THEN latestValues[CHOOSE t \in MeasTypes :
                 latestValues[t].present /\ TypeMapping(t).snapshotKey = k].value
        ELSE IF k \in {"sleep_score", "sleep_duration_minutes"} THEN Null
        ELSE 0]

MeasureSnapshot(latestValues) ==
    [k \in Keys |->
        IF \E t \in MeasTypes :
              latestValues[t].present /\ TypeMapping(t).snapshotKey = k
        THEN latestValues[CHOOSE t \in MeasTypes :
                 latestValues[t].present /\ TypeMapping(t).snapshotKey = k].value
        ELSE Null]

Max(a, b) == IF a >= b THEN a ELSE b
Min(a, b) == IF a <= b THEN a ELSE b

\* overlap of a session with the day window
Overlap(session, startTs, endTs) ==
    Max(0, Min(session.enddate, endTs) - Max(session.startdate, startTs))

RECURSIVE BestSleepLoop_TieReplaces(_, _, _, _, _)
\* for (const session of sleepRes.body.series): index of bestSleep, 0 for null
\* (variant: an equal overlap replaces the current best)
BestSleepLoop_TieReplaces(series, i, best, maxOverlap, w) ==
    IF i > Len(series) THEN best
    ELSE IF Overlap(series[i], w.startTs, w.endTs) >= maxOverlap
         THEN BestSleepLoop_TieReplaces(series, i + 1, i,
                            Overlap(series[i], w.startTs, w.endTs), w)
         ELSE BestSleepLoop_TieReplaces(series, i + 1, best, maxOverlap, w)

RECURSIVE BestSleepLoop(_, _, _, _, _)
BestSleepLoop(series, i, best, maxOverlap, w) ==
    IF i > Len(series) THEN best
    ELSE IF Overlap(series[i], w.startTs, w.endTs) > maxOverlap
         THEN BestSleepLoop(series, i + 1, i,
                            Overlap(series[i], w.startTs, w.endTs), w)
         ELSE BestSleepLoop(series, i + 1, best, maxOverlap, w)

BestSleep(series, w) == BestSleepLoop(series, 1, 0, 0, w)

\* a value that an if (...) or || of JavaScript takes as true
Truthy(v) == v # Null /\ v # Undefined /\ v # 0

\* bestSleep.data?.total_sleep_time || bestSleep.data?.total_timeinbed
DurationSeconds(session) ==
    IF ~session.has_data THEN Undefined
    ELSE IF Truthy(session.total_sleep_time) THEN session.total_sleep_time
    ELSE session.total_timeinbed

\* Math.round(durationSeconds / 60)
DurationMinutes(seconds) == (seconds + 30) \div 60

\* the snapshot after the sleep block
\* (variant: a failed sleep fetch starts the snapshot afresh)
SleepSnapshot_FailureResets(snap, res, w) ==
    IF res.thrown \/ res.status # 0 THEN EmptySnapshot
    ELSE IF ~res.has_body \/ res.series = <<>> THEN snap
    ELSE LET b == BestSleep(res.series, w) IN
         IF b = 0 THEN snap
         ELSE LET bestSleep == res.series[b]
                  withScore ==
                     IF bestSleep.has_data /\ bestSleep.sleep_score # Undefined
                     THEN [snap EXCEPT !["sleep_score"] = bestSleep.sleep_score]
                     ELSE snap
              IN  IF Truthy(DurationSeconds(bestSleep))
                  THEN [withScore EXCEPT !["sleep_duration_minutes"] =
                           DurationMinutes(DurationSeconds(bestSleep))]
                  ELSE withScore

SleepSnapshot(snap, res, w) ==
    IF res.thrown \/ res.status # 0 \/ ~res.has_body \/ res.series = <<>>
    THEN snap
    ELSE LET b == BestSleep(res.series, w) IN
         IF b = 0 THEN snap
         ELSE LET bestSleep == res.series[b]
                  withScore ==
                     IF bestSleep.has_data /\ bestSleep.sleep_score # Undefined
                     THEN [snap EXCEPT !["sleep_score"] = bestSleep.sleep_score]
                     ELSE snap
              IN  IF Truthy(DurationSeconds(bestSleep))
                  THEN [withScore EXCEPT !["sleep_duration_minutes"] =
                           DurationMinutes(DurationSeconds(bestSleep))]
                  ELSE withScore

\* the data points pushed by the sleep block
SleepDataPoints(res, w) ==
    IF res.thrown \/ res.status # 0 \/ ~res.has_body \/ res.series = <<>>
    THEN <<>>
    ELSE LET b == BestSleep(res.series, w) IN
         IF b = 0 THEN <<>>
         ELSE LET bestSleep == res.series[b] IN
              (IF bestSleep.has_data /\ bestSleep.sleep_score # Undefined
               THEN << DataPoint("sleep_score", bestSleep.sleep_score, "score",
                                 bestSleep.startdate) >>
               ELSE <<>>)
              \o
              (IF Truthy(DurationSeconds(bestSleep))
               THEN << DataPoint("sleep_duration_minutes",
                                 DurationMinutes(DurationSeconds(bestSleep)),
                                 "minutes", bestSleep.startdate) >>
               ELSE <<>>)

-----------------------------------------------------------------------------
(* Change Detector *)

Abs(x) == IF x < 0 THEN -x ELSE x

\* .eq('source','withings').eq('entry_type','measurement')
\* .order('entry_ts', desc).limit(1); data is null when the query fails
\* (variant: ascending, the oldest such row)
RecentMeasurementsQuery_Oldest(st, dbOk) ==
    LET idx == {i \in 1..Len(st) :
                   st[i].source = "withings" /\ st[i].entry_type = "measurement"}
    IN  IF ~dbOk \/ idx = {} THEN <<>>
        ELSE << st[CHOOSE i \in idx : \A j \in idx : i <= j] >>

RecentMeasurementsQuery(st, dbOk) ==
    LET idx == {i \in 1..Len(st) :
                   st[i].source = "withings" /\ st[i].entry_type = "measurement"}
    IN  IF ~dbOk \/ idx = {} THEN <<>>
        ELSE << st[CHOOSE i \in idx : \A j \in idx : j <= i] >>

\* a && b ? Math.abs(a - b) : 0
\* (variant: a missing value counts as 0)
Change_NullAsZero(a, b) ==
    Abs((IF Truthy(a) THEN a ELSE 0) - (IF Truthy(b) THEN b ELSE 0))

Change(a, b) == IF Truthy(a) /\ Truthy(b) THEN Abs(a - b) ELSE 0

\* changes.hrv >= 10, with changes.hrv = |(a - b) / b * 100| or 0
HrvChangeReached(a, b) ==
    IF Truthy(a) /\ Truthy(b) THEN 100 * Abs(a - b) >= 10 * Abs(b) ELSE FALSE

\* shouldTriggerAgent: true on a cold start, else the four thresholds
\* (0.5 kg and 5 bpm are 5 and 50 tenths)
ShouldTrigger_NoColdStart(recent, snap) ==
    /\ recent # <<>>
    /\ LET lastMetrics == recent[1].metrics IN
         \/ Change(snap["weight_kg"], lastMetrics["weight_kg"]) >= 5
         \/ Change(snap["heart_pulse_bpm"], lastMetrics["heart_pulse_bpm"]) >= 50
         \/ HrvChangeReached(snap["hrv"], lastMetrics["hrv"])
         \/ Change(snap["sleep_duration_minutes"],
                   lastMetrics["sleep_duration_minutes"]) >= 60

ShouldTrigger(recent, snap) ==
    IF recent = <<>> THEN TRUE
    ELSE LET lastMetrics == recent[1].metrics IN
         \/ Change(snap["weight_kg"], lastMetrics["weight_kg"]) >= 5
         \/ Change(snap["heart_pulse_bpm"], lastMetrics["heart_pulse_bpm"]) >= 50
         \/ HrvChangeReached(snap["hrv"], lastMetrics["hrv"])
         \/ Change(snap["sleep_duration_minutes"],
                   lastMetrics["sleep_duration_minutes"]) >= 60

-----------------------------------------------------------------------------
(* Actions of a /health/daily request *)

DailyReply(status) ==
    [status |-> status, snapshot |-> snapshot, data_points |-> dataPoints]

\* date check and tokenStore.getValidAccessToken()
DailyStart(dateValid, tokenOk) ==
    /\ dpc = "idle"
    /\ IF ~dateValid
       THEN /\ dailyResponse' = DailyReply(400)
            /\ dpc' = "done"
       ELSE IF ~tokenOk
       THEN /\ dailyResponse' = DailyReply(401)
            /\ dpc' = "done"
       ELSE /\ dpc' = "measure"
            /\ UNCHANGED dailyResponse
    /\ UNCHANGED <<store, apiKey, chatVars, sideVars, measureRes, sleepRes, snapshot,
                   dataPoints, recentMeasurements, shouldTriggerAgent,
                   dailyAnalysis>>

\* if (measureRes.status !== 0) return res.status(502)...
MeasureStatusError_Never(res) == FALSE

MeasureStatusError(res) == res.status # 0

\* where the handler goes after the measurement block: the sleep fetch,
\* unless the status check has answered 502
MeasureContinuation_SkipsSleep(res) ==
    IF ~res.thrown /\ MeasureStatusError(res) THEN "done" ELSE "detect"

MeasureContinuation(res) ==
    IF ~res.thrown /\ MeasureStatusError(res) THEN "done" ELSE "sleep"

\* the measurement block
MeasureFetch(res) ==
    /\ dpc = "measure"
    /\ measureRes' = res
    /\ IF res.thrown
       THEN \* caught: continue with the empty snapshot
            /\ dpc' = MeasureContinuation(res)
            /\ UNCHANGED <<snapshot, dataPoints, dailyResponse>>
       ELSE IF MeasureStatusError(res)
       THEN /\ dailyResponse' = DailyReply(502)
            /\ dpc' = MeasureContinuation(res)
            /\ UNCHANGED <<snapshot, dataPoints>>
       ELSE /\ dpc' = MeasureContinuation(res)
            /\ IF res.has_body
               THEN /\ snapshot' = MeasureSnapshot(LatestValues(res.measuregrps))
                    /\ dataPoints' = MeasureDataPoints(LatestValues(res.measuregrps))
               ELSE UNCHANGED <<snapshot, dataPoints>>
            /\ UNCHANGED dailyResponse
    /\ UNCHANGED <<store, apiKey, chatVars, sideVars, sleepRes, recentMeasurements,
                   shouldTriggerAgent, dailyAnalysis>>

\* the sleep block
SleepFetch(res) ==
    /\ dpc = "sleep"
    /\ sleepRes' = res
    /\ snapshot' = SleepSnapshot(snapshot, res, DayWindow)
    /\ dataPoints' = dataPoints \o SleepDataPoints(res, DayWindow)
    /\ dpc' = "detect"
    /\ UNCHANGED <<store, apiKey, chatVars, sideVars, measureRes, recentMeasurements,
                   shouldTriggerAgent, dailyResponse, dailyAnalysis>>

\* the read of the most recent measurement entry and the decision
DetectChange(dbOk) ==
    /\ dpc = "detect"
    /\ recentMeasurements' = RecentMeasurementsQuery(store, dbOk)
    /\ shouldTriggerAgent' =
          ShouldTrigger(RecentMeasurementsQuery(store, dbOk), snapshot)
    /\ IF ShouldTrigger(RecentMeasurementsQuery(store, dbOk), snapshot)
       THEN /\ dpc' = "analyze"
            /\ UNCHANGED dailyResponse
       ELSE /\ dpc' = "done"
            /\ dailyResponse' = DailyReply(200)
    /\ UNCHANGED <<store, apiKey, chatVars, sideVars, measureRes, sleepRes, snapshot,
                   dataPoints, dailyAnalysis>>

\* the status of the answer after the trigger block: its catch logs what
\* the analyzer threw and res.json(response) follows
AgentTriggerStatus_Propagates(ok) == IF ok THEN 200 ELSE 500

AgentTriggerStatus(ok) == 200

\* the analysis of a triggered poll; what it throws is caught and logged
DailyAnalyze(outcome) ==
    /\ dpc = "analyze"
    /\ LET agentResult ==
             analyze_and_persist_progress(snapshot, "withings", "measurement",
                                          store, apiKey, outcome)
       IN  /\ store' = agentResult.store
           /\ dailyAnalysis' = IF agentResult.ok THEN "ok"
                               ELSE IF ~apiKey THEN "no_key" ELSE outcome
           /\ dailyResponse' = DailyReply(AgentTriggerStatus(agentResult.ok))
    /\ dpc' = "done"
    /\ UNCHANGED <<apiKey, chatVars, sideVars, measureRes, sleepRes, snapshot, dataPoints,
                   recentMeasurements, shouldTriggerAgent>>

\* /health/daily requests at their trigger block: 1 and 2 run concurrently,
\* 3 is the poll of the next cycle
PollIds == {1, 2, 3}

IdlePoll ==
    [pc |-> "idle", snapshot |-> EmptySnapshot, seen |-> <<>>,
     trigger |-> FALSE, analysis |-> "none"]

\* no poll is at its trigger block
NoPolls == [p \in PollIds |-> IdlePoll]

\* no request was made to the /agent/* endpoints from outside yet
NoDirect == [n |-> 0, endpoint |-> "none", consent |-> "none", status |-> 0]

\* requests in flight that write one row each
Writers == {1, 2}

NoPayload == [kind |-> "none", entry_ts |-> 0]

\* getTokens() gave null: no record, or the read failed
NoTokens == [present |-> FALSE, access_token |-> 0, refresh_token |-> 0,
             expires_at |-> 0]

\* concurrent invocations of getValidAccessToken
Callers == {1, 2}

IdleCaller == [pc |-> "idle", tokens |-> NoTokens, checkedAt |-> 0, sent |-> 0,
               answer |-> "none", data |-> 0, saved |-> FALSE,
               result |-> "none", access |-> 0]

NoCallback == [n |-> 0, hasCode |-> FALSE, answer |-> "none", saved |-> FALSE,
               status |-> 0, expires_in |-> 0]

TokenIdle ==
    /\ callers = [c \in Callers |-> IdleCaller]
    /\ tokenRequests = <<>>
    /\ tokenWrites = <<>>
    /\ issued = 0
    /\ callback = NoCallback

\* no step-by-step analyzer call was made
NoAnalyzerCall ==
    [pc |-> "idle", snapshot |-> EmptySnapshot, source |-> "", entry_type |-> "",
     has_summary |-> FALSE, summary |-> <<>>, ops |-> <<>>]

TraceIdle ==
    /\ analyzer = NoAnalyzerCall
    /\ stateReads = <<>>
    /\ polls = NoPolls

SideIdle ==
    /\ TraceIdle
    /\ direct = NoDirect
    /\ clock = 0
    /\ writers = [w \in Writers |-> [pc |-> "idle", payload |-> NoPayload]]
    /\ tokenRecord = NoTokens
    /\ TokenIdle

ChatIdle ==
    /\ pc = "idle"
    /\ message = {}
    /\ hasConsent = FALSE
    /\ messages = <<>>
    /\ responseMessage = NoMessage
    /\ iteration = 0
    /\ callIdx = 0
    /\ toolTrace = <<>>
    /\ committed = FALSE
    /\ response = NoResponse
    /\ engineCalls = 0
    /\ commitRequests = 0
    /\ analyzerCalls = 0
    /\ requested = 0
    /\ analysis = "none"

DailyIdle ==
    /\ dpc = "idle"
    /\ measureRes = NoProviderResponse
    /\ sleepRes = NoProviderResponse
    /\ snapshot = EmptySnapshot
    /\ dataPoints = <<>>
    /\ recentMeasurements = <<>>
    /\ shouldTriggerAgent = FALSE
    /\ dailyResponse = NoDailyResponse
    /\ dailyAnalysis = "none"

\* one chat turn against an empty progress table
Init ==
    /\ store = <<>>
    /\ apiKey \in BOOLEAN
    /\ ChatIdle
    /\ DailyIdle
    /\ SideIdle

Next ==
    \/ \E m \in Messages : ChatStart(m)
    \/ EngineCall
    \/ DispatchToolCall
    \/ ChatAnalyze

Spec == Init /\ [][Next]_vars

\* one /health/daily poll against a progress table left by earlier requests
InitDaily ==
    /\ store \in DailyStores
    /\ apiKey \in BOOLEAN
    /\ ChatIdle
    /\ DailyIdle
    /\ SideIdle

NextDaily ==
    \/ \E dateValid \in BOOLEAN, tokenOk \in BOOLEAN : DailyStart(dateValid, tokenOk)
    \/ \E res \in MeasureResponses : MeasureFetch(res)
    \/ \E res \in SleepResponses : SleepFetch(res)
    \/ \E dbOk \in BOOLEAN : DetectChange(dbOk)
    \/ \E outcome \in AnalyzerOutcomes : DailyAnalyze(outcome)

SpecDaily == InitDaily /\ [][NextDaily]_vars

-----------------------------------------------------------------------------
(* Requests of all five kinds against one progress table *)

\* number of rows the table holds at most in the runs with all endpoints
MaxStore == 3

\* number of requests made to the /agent/* endpoints from outside
MaxDirect == 1

\* req.body of a request to /agent/event or /agent/commit: consent is
\* missing ("none"), or an object with status "denied" or "granted"
DirectBody(entry_type, consent) ==
    [entry_type |-> entry_type, source |-> "manual", title |-> "Cut coffee",
     consent |-> consent,
     granted_at |-> IF consent = "none" THEN "none" ELSE "client",
     has_metrics |-> FALSE, metrics |-> EmptySnapshot]

ConsentStatuses == {"none", "denied", "granted"}

\* GET /agent/state from outside
DirectState(dbOk) ==
    /\ direct.n < MaxDirect
    /\ LET r == AgentStateHandler(store, dbOk) IN
         /\ store' = r.store
         /\ direct' = [n |-> direct.n + 1, endpoint |-> "state",
                       consent |-> "none", status |-> r.status]
    /\ UNCHANGED <<apiKey, chatVars, dailyVars, traceVars, writerVars, tokenVars>>

\* POST /agent/event from outside: the body is stored as it comes, its
\* entry_type included
DirectEvent(entry_type, consent, dbOk) ==
    /\ direct.n < MaxDirect
    /\ LET r == AgentEventHandler(DirectBody(entry_type, consent), store, dbOk) IN
         /\ store' = r.store
         /\ direct' = [n |-> direct.n + 1, endpoint |-> "event",
                       consent |-> consent, status |-> r.status]
    /\ UNCHANGED <<apiKey, chatVars, dailyVars, traceVars, writerVars, tokenVars>>

\* POST /agent/commit from outside
DirectCommit(consent, dbOk) ==
    /\ direct.n < MaxDirect
    /\ LET r == AgentCommitHandler(DirectBody("decision", consent), store, dbOk) IN
         /\ store' = r.store
         /\ direct' = [n |-> direct.n + 1, endpoint |-> "commit",
                       consent |-> consent, status |-> r.status]
    /\ UNCHANGED <<apiKey, chatVars, dailyVars, traceVars, writerVars, tokenVars>>

\* the provider answers tried in the runs with all endpoints
FewMeasureResponses ==
    {res \in MeasureResponses :
        res.measuregrps = << [date |-> 100, measures |-> << Measure(1, 705, -1) >>] >>}

FewSleepResponses ==
    {res \in SleepResponses : res.thrown}

InitStore ==
    /\ store = <<>>
    /\ apiKey = TRUE
    /\ ChatIdle
    /\ DailyIdle
    /\ SideIdle

\* one chat turn, one /health/daily poll and requests to the three /agent/*
\* endpoints, their steps interleaved in every order
StoreBounded == Len(store') <= MaxStore

NextStore ==
    \/ ChatStart({"ochel", "teadken"}) /\ StoreBounded
    \/ EngineCall /\ requested' <= 1 /\ responseMessage'.content = "text"
    \/ DispatchToolCall /\ StoreBounded
    \/ ChatAnalyze /\ StoreBounded
    \/ DailyStart(TRUE, TRUE)
    \/ \E res \in FewMeasureResponses : MeasureFetch(res)
    \/ \E res \in FewSleepResponses : SleepFetch(res)
    \/ DetectChange(TRUE)
    \/ \E outcome \in {"ok", "insert_error"} : DailyAnalyze(outcome) /\ StoreBounded
    \/ \E dbOk \in BOOLEAN : DirectState(dbOk)
    \/ \E entry_type \in {"event", "decision"}, consent \in ConsentStatuses,
          dbOk \in BOOLEAN :
          DirectEvent(entry_type, consent, dbOk) /\ StoreBounded
    \/ \E consent \in ConsentStatuses, dbOk \in BOOLEAN :
          DirectCommit(consent, dbOk) /\ StoreBounded

SpecStore == InitStore /\ [][NextStore]_vars

-----------------------------------------------------------------------------
(* Concurrent writers of the progress table: entry_ts is read from the      *)
(* server's clock when the payload is built, the row enters the table when *)
(* the insert request reaches the database                                  *)

\* last value of the clock
MaxClock == 3

\* the four places that build a row: /agent/event, /agent/commit, the user
\* message of /agent/chat, the progress entry of the analyzer
WriterKinds == {"event", "commit", "chat_message", "analysis"}

\* { ...req.body, entry_ts: new Date().toISOString() } and its likes
StampedPayload(kind, now) == [kind |-> kind, entry_ts |-> now]

\* time passes
Tick ==
    /\ clock < MaxClock
    /\ clock' = clock + 1
    /\ UNCHANGED <<store, apiKey, chatVars, dailyVars, traceVars, direct, writers, tokenVars>>

\* a request builds its payload and sends the insert
Stamp(w, kind) ==
    /\ writers[w].pc = "idle"
    /\ writers' = [writers EXCEPT ![w] =
                     [pc |-> "inserting", payload |-> StampedPayload(kind, clock)]]
    /\ UNCHANGED <<store, apiKey, chatVars, dailyVars, traceVars, direct, clock, tokenVars>>

\* the insert reaches the table, or fails
Insert(w, dbOk) ==
    /\ writers[w].pc = "inserting"
    /\ store' = IF dbOk THEN Append(store, writers[w].payload) ELSE store
    /\ writers' = [writers EXCEPT ![w].pc = "done"]
    /\ UNCHANGED <<apiKey, chatVars, dailyVars, traceVars, direct, clock, tokenVars>>

InitWriters ==
    /\ store = <<>>
    /\ apiKey = TRUE
    /\ ChatIdle
    /\ DailyIdle
    /\ SideIdle

NextWriters ==
    \/ Tick
    \/ \E w \in Writers, kind \in WriterKinds : Stamp(w, kind)
    \/ \E w \in Writers, dbOk \in BOOLEAN : Insert(w, dbOk)

SpecWriters == InitWriters /\ [][NextWriters]_vars

-----------------------------------------------------------------------------
(* Token store (src/tokenStore.js) and GET /auth/withings/callback *)

\* number of token pairs the provider issues at most
MaxIssued == 3

\* data.body.expires_in, in ticks of the clock
ExpiresIn == 2

\* the record a previous authorisation left: pair 9, expiring at clock 2
StoredRecord == [present |-> TRUE, access_token |-> 9, refresh_token |-> 9,
                 expires_at |-> 2]

\* saveTokens(accessToken, refreshToken, expiresIn): writes the record and
\* returns true, or returns false when the write failed
saveTokens(record, accessToken, refreshToken, expiresIn, now, writeOk) ==
    [returned |-> writeOk,
     record |-> IF writeOk
                THEN [present |-> TRUE, access_token |-> accessToken,
                      refresh_token |-> refreshToken,
                      expires_at |-> now + expiresIn]
                ELSE record]

\* getTokens(): the record, or null when there is none or the read failed
getTokens(record, readOk) == IF readOk /\ record.present THEN record ELSE NoTokens

\* if (Date.now() < tokens.expires_at) return tokens.access_token
StillValid_Inclusive(now, tokens) == now <= tokens.expires_at

StillValid(now, tokens) == now < tokens.expires_at

\* whether the stored token is returned without a refresh; a refresh another
\* invocation has in flight plays no part
ReturnsStored_WhileRefreshInFlight(now, tokens, inFlight) ==
    StillValid(now, tokens) \/ inFlight

ReturnsStored(now, tokens, inFlight) == StillValid(now, tokens)

\* saveResult.ok of the callback: saveTokens returns a boolean, which has no
\* property ok, so the value is undefined whatever was returned
SaveResultOk(returned) == FALSE

RefreshInFlight == \E c \in Callers : callers[c].pc \in {"refresh", "save"}

\* const tokens = getTokens()
TokenGet(c, readOk) ==
    /\ callers[c].pc = "idle"
    /\ callers' = [callers EXCEPT ![c].pc = "check",
                                  ![c].tokens = getTokens(tokenRecord, readOk)]
    /\ UNCHANGED <<store, apiKey, chatVars, dailyVars, traceVars, direct, writerVars,
                   tokenRecord, tokenRequests, tokenWrites, issued, callback>>

\* the null check, the expiry check and the sending of the refresh request
TokenCheck(c) ==
    /\ callers[c].pc = "check"
    /\ LET tokens == callers[c].tokens IN
       IF ~tokens.present
       THEN /\ callers' = [callers EXCEPT ![c].pc = "done",
                                          ![c].checkedAt = clock,
                                          ![c].result = "not_authenticated"]
            /\ UNCHANGED tokenRequests
       ELSE IF ReturnsStored(clock, tokens, RefreshInFlight)
       THEN /\ callers' = [callers EXCEPT ![c].pc = "done",
                                          ![c].checkedAt = clock,
                                          ![c].result = "token",
                                          ![c].access = tokens.access_token]
            /\ UNCHANGED tokenRequests
       ELSE /\ callers' = [callers EXCEPT ![c].pc = "refresh",
                                          ![c].checkedAt = clock,
                                          ![c].sent = callers[c].sent + 1]
            /\ tokenRequests' = Append(tokenRequests,
                   [caller |-> c, refresh_token |-> tokens.refresh_token])
    /\ UNCHANGED <<store, apiKey, chatVars, dailyVars, traceVars, direct, writerVars,
                   tokenRecord, tokenWrites, issued, callback>>

\* the stored record after the provider's answer was read: neither the
\* status check nor the catch block writes it
\* (variant: a rejected grant clears the record)
RecordAfterAnswer_ClearsOnReject(record, answer) ==
    IF answer = "rejected" THEN NoTokens ELSE record

RecordAfterAnswer(record, answer) == record

\* the provider's answer to the refresh request: the fetch throws, the
\* status is not 0, or a new pair is issued
TokenRefreshAnswer(c, answer) ==
    /\ callers[c].pc = "refresh"
    /\ IF answer = "ok"
       THEN /\ issued < MaxIssued
            /\ issued' = issued + 1
            /\ callers' = [callers EXCEPT ![c].pc = "save",
                                          ![c].answer = answer,
                                          ![c].data = issued + 1]
       ELSE /\ callers' = [callers EXCEPT ![c].pc = "done",
                                          ![c].answer = answer,
                                          ![c].result = "refresh_failed"]
            /\ UNCHANGED issued
    /\ tokenRecord' = RecordAfterAnswer(tokenRecord, answer)
    /\ UNCHANGED <<store, apiKey, chatVars, dailyVars, traceVars, direct, writerVars,
                   tokenRequests, tokenWrites, callback>>

\* const saved = saveTokens(...); if (!saved) throw; return data.body.access_token
TokenSave(c, writeOk) ==
    /\ callers[c].pc = "save"
    /\ LET r == saveTokens(tokenRecord, callers[c].data, callers[c].data,
                           ExpiresIn, clock, writeOk)
       IN  /\ tokenRecord' = r.record
           /\ tokenWrites' = IF r.returned
                             THEN Append(tokenWrites,
                                         [by |-> c, access_token |-> callers[c].data])
                             ELSE tokenWrites
           /\ callers' = [callers EXCEPT
                  ![c].pc = "done",
                  ![c].saved = r.returned,
                  ![c].result = IF r.returned THEN "token" ELSE "save_failed",
                  ![c].access = IF r.returned THEN callers[c].data ELSE 0]
    /\ UNCHANGED <<store, apiKey, chatVars, dailyVars, traceVars, direct, writerVars,
                   tokenRequests, issued, callback>>

\* GET /auth/withings/callback: code check, token exchange, saveTokens
AuthCallback(hasCode, answer, writeOk) ==
    /\ callback.n = 0
    /\ IF ~hasCode
       THEN /\ callback' = [n |-> 1, hasCode |-> FALSE, answer |-> "none",
                            saved |-> FALSE, status |-> 400, expires_in |-> 0]
            /\ UNCHANGED <<tokenRecord, tokenWrites, issued>>
       ELSE IF answer = "thrown"
       THEN \* nothing catches what fetch throws: no response is sent
            /\ callback' = [n |-> 1, hasCode |-> TRUE, answer |-> answer,
                            saved |-> FALSE, status |-> 0, expires_in |-> 0]
            /\ UNCHANGED <<tokenRecord, tokenWrites, issued>>
       ELSE IF answer = "rejected"
       THEN /\ callback' = [n |-> 1, hasCode |-> TRUE, answer |-> answer,
                            saved |-> FALSE, status |-> 500, expires_in |-> 0]
            /\ UNCHANGED <<tokenRecord, tokenWrites, issued>>
       ELSE /\ issued < MaxIssued
            /\ issued' = issued + 1
            /\ LET saveResult == saveTokens(tokenRecord, issued + 1, issued + 1,
                                            ExpiresIn, clock, writeOk)
               IN  /\ tokenRecord' = saveResult.record
                   /\ tokenWrites' =
                         IF saveResult.returned
                         THEN Append(tokenWrites,
                                     [by |-> 0, access_token |-> issued + 1])
                         ELSE tokenWrites
                   /\ callback' =
                         IF ~SaveResultOk(saveResult.returned)
                         THEN [n |-> 1, hasCode |-> TRUE, answer |-> answer,
                               saved |-> saveResult.returned, status |-> 500,
                               expires_in |-> 0]
                         ELSE [n |-> 1, hasCode |-> TRUE, answer |-> answer,
                               saved |-> saveResult.returned, status |-> 200,
                               expires_in |-> ExpiresIn]
    /\ UNCHANGED <<store, apiKey, chatVars, dailyVars, traceVars, direct, writerVars,
                   callers, tokenRequests>>

ProviderAnswers == {"thrown", "rejected", "ok"}

\* the token record at the start: none, or the one an authorisation left
InitToken ==
    /\ store = <<>>
    /\ apiKey = TRUE
    /\ ChatIdle
    /\ DailyIdle
    /\ direct = NoDirect
    /\ clock = 0
    /\ writers = [w \in Writers |-> [pc |-> "idle", payload |-> NoPayload]]
    /\ tokenRecord \in {NoTokens, StoredRecord}
    /\ TokenIdle
    /\ TraceIdle

NextToken ==
    \/ Tick
    \/ \E c \in Callers, readOk \in BOOLEAN : TokenGet(c, readOk)
    \/ \E c \in Callers : TokenCheck(c)
    \/ \E c \in Callers, answer \in ProviderAnswers : TokenRefreshAnswer(c, answer)
    \/ \E c \in Callers, writeOk \in BOOLEAN : TokenSave(c, writeOk)
    \/ \E hasCode \in BOOLEAN, answer \in ProviderAnswers, writeOk \in BOOLEAN :
          AuthCallback(hasCode, answer, writeOk)

SpecToken == InitToken /\ [][NextToken]_vars

-----------------------------------------------------------------------------
(* Reading the history of a turn out of the messages array *)

ToolMsgs == SelectSeq(messages, LAMBDA x : x.role = "tool")

AssistantMsgs == SelectSeq(messages, LAMBDA x : x.role = "assistant")

RECURSIVE CallsOfFirst(_, _)
\* the tool calls of the first n engine messages of msgs, in order
CallsOfFirst(msgs, n) ==
    IF n = 0 \/ msgs = <<>> THEN <<>>
    ELSE msgs[1].tool_calls \o CallsOfFirst(Tail(msgs), n - 1)

\* the calls of the engine messages whose dispatch round was entered
DispatchedCalls == CallsOfFirst(AssistantMsgs, iteration)

\* the turn is past its validation and has not answered yet
InTurn == pc \in {"engine", "dispatch", "analyze"}

NoConsentWords == message \cap {"maasher", "teadken", "batsea"} = {}

\* the loop stopped at the cap while the last engine message still asks for tools
Truncated ==
    /\ pc \in {"analyze", "done"}
    /\ Len(AssistantMsgs) = MAX_ITERATIONS + 1
    /\ responseMessage.has_tool_calls

-----------------------------------------------------------------------------
(* Claims about the chat turn *)

C2_ConsentComputedOnce ==
    [][ InTurn => /\ hasConsent = ~NoConsentWords
                  /\ hasConsent' = hasConsent ]_vars

\* the engine handed in consent.status = "granted" in a turn without consent
\* words, the call was dispatched, and the turn's boolean is still false
C2_Witness ==
    /\ pc = "engine"
    /\ NoConsentWords
    /\ ~hasConsent
    /\ Len(toolTrace) > 0
    /\ toolTrace[1].function = "commit_agent_decision"
    /\ toolTrace[1].arguments.consent = "granted"

\* C3 as stated: at most 5 dispatch rounds and 6 engine calls, and when the
\* loop is cut at the cap the reply is the text of the last engine message.
C3_ReplyIsLastText ==
    /\ iteration <= MAX_ITERATIONS
    /\ engineCalls <= MAX_ITERATIONS + 1
    /\ (Truncated /\ response.status = 200)
          => response.reply = responseMessage.content

\* C3, amended: at most 5 dispatch rounds and at most 6 engine calls per
\* turn; when the 6th engine message still requests tools, these calls are
\* not dispatched (no trace record, no tool message), the turn goes on to
\* the analysis instead of failing, and the reply is that message's text,
\* or the fixed text "No response generated" when it has none.
C3_LoopBounded ==
    /\ iteration <= MAX_ITERATIONS
    /\ engineCalls <= MAX_ITERATIONS + 1
    /\ Len(AssistantMsgs) <= MAX_ITERATIONS + 1
    /\ pc \in {"engine", "dispatch"} => engineCalls <= MAX_ITERATIONS
    /\ Truncated =>
         /\ Len(toolTrace) = requested - Len(responseMessage.tool_calls)
         /\ Len(ToolMsgs) = requested - Len(responseMessage.tool_calls)
         /\ \A i \in 1..Len(ToolMsgs) :
              \A j \in 1..Len(responseMessage.tool_calls) :
                 ToolMsgs[i].tool_call_id # responseMessage.tool_calls[j].id
         /\ pc = "done" => /\ analyzerCalls = 1
                           /\ response.status = 500 => analysis # "ok"
    /\ response.status = 200 =>
         response.reply = IF responseMessage.content = ""
                          THEN "No response generated"
                          ELSE responseMessage.content

\* the loop was cut with a tool call pending and the turn answered 200
C3_Witness ==
    /\ Truncated
    /\ response.status = 200
    /\ Len(responseMessage.tool_calls) > 0
    /\ iteration = MAX_ITERATIONS
    /\ engineCalls = MAX_ITERATIONS + 1

\* C4: a turn answers {reply, committed, tool_trace} only after exactly one
\* call of the analyzer, made after the last engine call of the loop, with
\* source 'user', whose entry is the last row appended to the store; and a
\* turn whose loop has ended has not answered before that call.
C4_AnalyzerBeforeReply ==
    /\ pc \in {"idle", "engine", "dispatch", "analyze"} => analyzerCalls = 0
    /\ pc = "analyze" => response.status = 0
    /\ analyzerCalls <= 1
    /\ response.status = 200 =>
         /\ pc = "done"
         /\ analyzerCalls = 1
         /\ Len(store) > 0
         /\ store[Len(store)].source = "user"
         /\ store[Len(store)].title = "summary"
         /\ store[Len(store)].entry_type \in {"insight", "adherence", "intervention"}

\* a turn that dispatched a tool call and then answered
C4_Witness ==
    /\ response.status = 200
    /\ Len(toolTrace) > 0
    /\ analyzerCalls = 1
    /\ store[Len(store)].source = "user"

\* C5: when the turn's analyzer call fails (history read, engine call,
\* parsing of the engine output, or insert), the turn answers 500 and no
\* reply, also when the tool loop completed.
C5_AnalysisFailureIs500 ==
    analysis \in {"history_error", "engine_error", "parse_error", "insert_error"}
       => /\ response.status = 500
          /\ response.reply = ""
          /\ pc = "done"

\* the insert of the analysis failed after a loop that committed a decision
C5_Witness ==
    /\ analysis = "insert_error"
    /\ committed
    /\ response.status = 500

\* C6: in a successful response committed is true exactly when some
\* commit_agent_decision call of the turn was answered "committed" by the
\* commit endpoint.
C6_CommittedIffCommitSucceeded ==
    response.status = 200 =>
       (response.committed <=>
           \E i \in 1..Len(ToolMsgs) :
              /\ DispatchedCalls[i].function.name = "commit_agent_decision"
              /\ ToolMsgs[i].content = "committed")

\* one commit request failed, another succeeded: committed is true
C6_Witness ==
    /\ response.status = 200
    /\ response.committed
    /\ \E i \in 1..Len(ToolMsgs) : ToolMsgs[i].content = "error"
    /\ commitRequests = 2

\* every commit request of the turn failed: committed is false
C6_WitnessAllFailed ==
    /\ response.status = 200
    /\ ~response.committed
    /\ commitRequests = 2

\* C7: tool_trace of the response has one {function, arguments} record per
\* dispatched tool call, in dispatch order (the order of the engine messages
\* and of the calls inside each), rejected and failed calls included, and
\* none for the calls of a message the loop did not dispatch.
C7_ToolTraceMatchesDispatch ==
    response.status = 200 =>
       /\ Len(response.tool_trace) = Len(DispatchedCalls)
       /\ Len(ToolMsgs) = Len(DispatchedCalls)
       /\ \A i \in 1..Len(DispatchedCalls) :
            /\ response.tool_trace[i].function = DispatchedCalls[i].function.name
            /\ response.tool_trace[i].arguments =
                  JSONparse(DispatchedCalls[i].function.arguments)
            /\ ToolMsgs[i].tool_call_id = DispatchedCalls[i].id
       /\ Truncated =>
            Len(response.tool_trace) = requested - Len(responseMessage.tool_calls)

\* a commit rejected by the consent gate is in the trace, the call of the
\* cut-off sixth message is not
C7_Witness ==
    /\ response.status = 200
    /\ Len(response.tool_trace) = 1
    /\ ToolMsgs[1].content = "consent_error"
    /\ Truncated
    /\ Len(responseMessage.tool_calls) = 1

-----------------------------------------------------------------------------
(* Claims about /health/daily *)

\* the measurement block parsed a provider response
MeasuresParsed ==
    /\ dpc \in {"sleep", "detect", "analyze", "done"}
    /\ ~measureRes.thrown
    /\ measureRes.status = 0
    /\ measureRes.has_body

\* the readings of type t in the response: position, group date, value
ReadingsOf(t) ==
    { [grp |-> g, pos |-> i,
       date |-> measureRes.measuregrps[g].date,
       value |-> ActualValue(measureRes.measuregrps[g].measures[i].value,
                             measureRes.measuregrps[g].measures[i].unit)] :
        <<g, i>> \in
          { <<g2, i2>> \in (1..Len(measureRes.measuregrps)) \X (1..3) :
              /\ i2 <= Len(measureRes.measuregrps[g2].measures)
              /\ measureRes.measuregrps[g2].measures[i2].type = t } }

LatestOf(t) == { r \in ReadingsOf(t) : \A q \in ReadingsOf(t) : q.date <= r.date }

\* C8: for every metric type with two or more readings in the returned
\* groups, whatever their order, the snapshot value and the retained data
\* point are those of a reading with the greatest group timestamp.
C8_LatestReadingWins ==
    MeasuresParsed =>
       \A t \in MeasTypes :
          Cardinality(ReadingsOf(t)) >= 2 =>
             /\ TypeMapping(t).snapshotKey # "none" =>
                  \E r \in LatestOf(t) :
                     snapshot[TypeMapping(t).snapshotKey] = r.value
             /\ \E i \in 1..Len(dataPoints) :
                  /\ dataPoints[i].key = TypeMapping(t).key
                  /\ \E r \in LatestOf(t) :
                       dataPoints[i].value = r.value /\ dataPoints[i].ts = r.date

\* the change detector ran
Detected == dpc = "analyze" \/ (dpc = "done" /\ dailyResponse.status = 200)

\* the delta of the claim: zero when either side is null
ClaimedDelta(a, b) == IF a = Null \/ b = Null THEN 0 ELSE Abs(a - b)

ClaimedHrvReached(a, b) ==
    IF a = Null \/ b = Null THEN FALSE ELSE 100 * Abs(a - b) >= 10 * Abs(b)

\* C9: when a prior measurement entry was read, analysis is triggered
\* exactly when a threshold is reached: |weight delta| >= 0.5 kg, or
\* |heart-rate delta| >= 5 bpm, or |HRV change| >= 10 % of the prior HRV, or
\* |sleep-duration delta| >= 60 min (values in tenths; inclusive thresholds).
C9_TriggerIffThreshold ==
    (Detected /\ recentMeasurements # <<>>) =>
       LET last == recentMeasurements[1].metrics IN
       shouldTriggerAgent <=>
          \/ ClaimedDelta(snapshot["weight_kg"], last["weight_kg"]) >= 5
          \/ ClaimedDelta(snapshot["heart_pulse_bpm"], last["heart_pulse_bpm"]) >= 50
          \/ ClaimedHrvReached(snapshot["hrv"], last["hrv"])
          \/ ClaimedDelta(snapshot["sleep_duration_minutes"],
                          last["sleep_duration_minutes"]) >= 60

\* the progress table as the poll found it
PriorStore ==
    IF dailyAnalysis = "ok" THEN SubSeq(store, 1, Len(store) - 1) ELSE store

NoPriorMeasurement ==
    \A i \in 1..Len(PriorStore) :
       ~(PriorStore[i].source = "withings" /\ PriorStore[i].entry_type = "measurement")

\* C10: cold start. When the table holds no entry with source withings and
\* entry_type measurement, a poll that reaches the change detector decides
\* to trigger and calls the analyzer before it answers, whatever the
\* snapshot holds.
C10_ColdStartAlwaysTriggers ==
    (Detected /\ NoPriorMeasurement) =>
       /\ shouldTriggerAgent
       /\ recentMeasurements = <<>>
       /\ dpc = "done" => dailyAnalysis # "none"

\* a cold-start poll with an all-null snapshot had the analyzer write its entry
C10_Witness ==
    /\ dpc = "done"
    /\ dailyResponse.status = 200
    /\ NoPriorMeasurement
    /\ snapshot = EmptySnapshot
    /\ dailyAnalysis = "ok"
    /\ store[Len(store)].source = "withings"
    /\ store[Len(store)].metrics = EmptySnapshot

-----------------------------------------------------------------------------
(* Sleep selection, null fields and provider failures of /health/daily *)

\* the poll is past its measurement block / its sleep block
MeasureRan == measureRes # NoProviderResponse

SleepRan == dpc = "detect" \/ Detected

MeasureKeys == {"weight_kg", "heart_pulse_bpm", "spo2_pct", "hrv"}

SleepKeys == {"sleep_score", "sleep_duration_minutes"}

SleepPoints ==
    SelectSeq(dataPoints, LAMBDA p : p.key \in SleepKeys)

\* the overlap of the claim: max(0, min(end, windowEnd) - max(start, windowStart))
ClaimedOverlap(session) ==
    LET hi == IF session.enddate < DayWindow.endTs
              THEN session.enddate ELSE DayWindow.endTs
        lo == IF session.startdate > DayWindow.startTs
              THEN session.startdate ELSE DayWindow.startTs
    IN  IF hi - lo > 0 THEN hi - lo ELSE 0

\* the sessions the claim lets be selected: positive overlap, no session with
\* a greater one, no earlier session with the same one
ClaimedSelection ==
    {i \in 1..Len(sleepRes.series) :
        /\ ClaimedOverlap(sleepRes.series[i]) > 0
        /\ \A j \in 1..Len(sleepRes.series) :
              ClaimedOverlap(sleepRes.series[j]) <= ClaimedOverlap(sleepRes.series[i])
        /\ \A j \in 1..(i - 1) :
              ClaimedOverlap(sleepRes.series[j]) < ClaimedOverlap(sleepRes.series[i])}

\* C11: after a sleep fetch that the provider answered with status 0, the
\* sleep fields and the sleep data points come from the session of maximum
\* overlap with the day window, the first one in provider order among equal
\* overlaps; when no session has a positive overlap, no session is selected:
\* the sleep fields stay null and no sleep data point is written.
C11_SleepSelection ==
    (SleepRan /\ ~sleepRes.thrown /\ sleepRes.status = 0) =>
       IF ClaimedSelection = {}
       THEN /\ \A k \in SleepKeys : snapshot[k] = Null
            /\ SleepPoints = <<>>
       ELSE LET selected == sleepRes.series[CHOOSE i \in ClaimedSelection : TRUE] IN
            /\ Cardinality(ClaimedSelection) = 1
            /\ \A n \in 1..Len(SleepPoints) : SleepPoints[n].ts = selected.startdate
            /\ (selected.has_data /\ selected.sleep_score # Undefined)
                  => snapshot["sleep_score"] = selected.sleep_score
            /\ snapshot["sleep_score"] # Null
                  => (selected.has_data /\ snapshot["sleep_score"] = selected.sleep_score)

\* two sessions overlap the window by the same 400 seconds: the first one
\* (start 900, score 48) was selected, not the second (start 1600, score 70)
C11_Witness ==
    /\ dpc = "done"
    /\ dailyResponse.status = 200
    /\ Len(sleepRes.series) = 2
    /\ ClaimedOverlap(sleepRes.series[1]) = 400
    /\ ClaimedOverlap(sleepRes.series[2]) = 400
    /\ snapshot["sleep_score"] = 48
    /\ Len(SleepPoints) = 2
    /\ SleepPoints[1].ts = 900

\* the only session lies outside the window: nothing was selected
C11_WitnessNoOverlap ==
    /\ dpc = "done"
    /\ dailyResponse.status = 200
    /\ Len(sleepRes.series) = 1
    /\ ClaimedOverlap(sleepRes.series[1]) = 0
    /\ sleepRes.series[1].has_data
    /\ \A k \in SleepKeys : snapshot[k] = Null

\* a reading of the provider's answer that feeds snapshot field k
HasMeasureRecord(k) ==
    /\ MeasureRan
    /\ ~measureRes.thrown
    /\ measureRes.status = 0
    /\ \E g \in 1..Len(measureRes.measuregrps) :
          \E n \in 1..Len(measureRes.measuregrps[g].measures) :
             LET t == measureRes.measuregrps[g].measures[n].type IN
             (t = 1 /\ k = "weight_kg") \/ (t = 11 /\ k = "heart_pulse_bpm")
                \/ (t = 54 /\ k = "spo2_pct") \/ (t = 62 /\ k = "hrv")

\* a sleep record of the provider's answer, inside the day window, that
\* carries a value for snapshot field k
HasSleepRecord(k) ==
    /\ SleepRan
    /\ ~sleepRes.thrown
    /\ sleepRes.status = 0
    /\ \E i \in 1..Len(sleepRes.series) :
          LET session == sleepRes.series[i] IN
          /\ ClaimedOverlap(session) > 0
          /\ session.has_data
          /\ IF k = "sleep_score" THEN session.sleep_score # Undefined
             ELSE \/ session.total_sleep_time \notin {Undefined, Null}
                  \/ session.total_timeinbed \notin {Undefined, Null}

ExplicitAbsence(snap) ==
    /\ \A k \in MeasureKeys : snap[k] # Null => HasMeasureRecord(k)
    /\ \A k \in SleepKeys : snap[k] # Null => HasSleepRecord(k)

\* C12: a snapshot field is non-null only if the provider returned a
\* matching measurement reading or sleep record; a field without one is
\* null (never zero or another default), in the snapshot being built and in
\* the snapshot of every response.
C12_NullMeansNoRecord ==
    /\ ExplicitAbsence(snapshot)
    /\ dailyResponse.status # 0 => ExplicitAbsence(dailyResponse.snapshot)

\* a response with a weight and a sleep duration, and with no SpO2, no HRV
\* and no sleep score because the provider returned none
C12_Witness ==
    /\ dailyResponse.status = 200
    /\ dailyResponse.snapshot["weight_kg"] # Null
    /\ dailyResponse.snapshot["sleep_duration_minutes"] # Null
    /\ dailyResponse.snapshot["spo2_pct"] = Null
    /\ dailyResponse.snapshot["hrv"] = Null
    /\ dailyResponse.snapshot["sleep_score"] = Null
    /\ ~HasMeasureRecord("hrv")
    /\ ~HasSleepRecord("sleep_score")

\* C13 (as stated): every upstream failure of the measurement fetch, a
\* non-zero provider status or a thrown network error, ends the request
\* with 502 and without a snapshot.
C13_MeasureFailureIs502 ==
    (MeasureRan /\ (measureRes.thrown \/ measureRes.status # 0)) =>
       /\ dpc = "done"
       /\ dailyResponse.status = 502
       /\ dailyResponse.snapshot = EmptySnapshot

\* C13 (amended): a non-zero provider status on the measurement fetch ends
\* the request with 502 and without a snapshot; a thrown network error of
\* the measurement fetch is caught: the request goes on with all measurement
\* fields null and no measurement data point, never answers 502, and
\* answers 200.
C13_StatusFailureIs502 ==
    MeasureRan =>
       /\ (~measureRes.thrown /\ measureRes.status # 0) =>
             /\ dpc = "done"
             /\ dailyResponse.status = 502
             /\ dailyResponse.snapshot = EmptySnapshot
             /\ sleepRes = NoProviderResponse
       /\ measureRes.thrown =>
             /\ dpc \in {"sleep", "detect", "analyze", "done"}
             /\ \A k \in MeasureKeys : snapshot[k] = Null
             /\ \A n \in 1..Len(dataPoints) : dataPoints[n].key \in SleepKeys
             /\ dpc = "done" =>
                   /\ dailyResponse.status = 200
                   /\ \A k \in MeasureKeys : dailyResponse.snapshot[k] = Null

\* the measurement fetch threw and the poll still answered 200, with the
\* sleep fields of the day
C13_Witness ==
    /\ measureRes.thrown
    /\ dpc = "done"
    /\ dailyResponse.status = 200
    /\ dailyResponse.snapshot["sleep_score"] # Null

\* the provider answered the measurement fetch with a non-zero status
C13_WitnessStatus ==
    /\ MeasureRan
    /\ ~measureRes.thrown
    /\ measureRes.status # 0
    /\ dailyResponse.status = 502

\* the snapshot the measurement block left
AfterMeasureBlock ==
    IF ~measureRes.thrown /\ measureRes.status = 0 /\ measureRes.has_body
    THEN [k \in Keys |->
            IF k \in MeasureKeys
            THEN MeasureSnapshot(LatestValues(measureRes.measuregrps))[k]
            ELSE Null]
    ELSE EmptySnapshot

\* C14: a failed sleep fetch (non-zero status or thrown error) never fails
\* the request: the snapshot keeps the measurement fields as the measurement
\* block computed them, its sleep fields are null, the change detection
\* step runs next, and the answer is 200 with that snapshot.
C14_SleepFailureTolerated ==
    (SleepRan /\ (sleepRes.thrown \/ sleepRes.status # 0)) =>
       /\ snapshot = AfterMeasureBlock
       /\ \A k \in SleepKeys : snapshot[k] = Null
       /\ SleepPoints = <<>>
       /\ dpc \in {"detect", "analyze", "done"}
       /\ dpc = "done" =>
             /\ dailyResponse.status = 200
             /\ dailyResponse.snapshot = snapshot
             /\ shouldTriggerAgent =
                   ShouldTrigger(recentMeasurements, snapshot)

\* the sleep fetch threw; the poll answered 200 with the weight of the day
\* and the change detector compared it with the earlier entry
C14_Witness ==
    /\ sleepRes.thrown
    /\ dpc = "done"
    /\ dailyResponse.status = 200
    /\ dailyResponse.snapshot["weight_kg"] = 705
    /\ dailyResponse.snapshot["sleep_score"] = Null
    /\ recentMeasurements # <<>>
    /\ shouldTriggerAgent

-----------------------------------------------------------------------------
(* The progress table under requests of all kinds *)

\* C15: the progress table is append-only. Whatever request takes a step
\* (/health/daily, /agent/state, /agent/event, /agent/commit, /agent/chat,
\* in any interleaving), the table afterwards is the table before, or the
\* table before with exactly one row added at its end: no row is ever
\* modified or deleted and every write inserts a single row.
C15_AppendOnly ==
    [][ \/ store' = store
        \/ /\ Len(store') = Len(store) + 1
           /\ SubSeq(store', 1, Len(store)) = store ]_vars

\* the table holds rows of three writers: one written through /agent/event
\* or /agent/commit from outside, the user message of a chat turn, and the
\* analysis of a poll
C15_Witness ==
    /\ Len(store) = 3
    /\ \E i \in 1..3 : store[i].source = "manual" /\ store[i].title = "Cut coffee"
    /\ \E i \in 1..3 : store[i] = UserMessageEntry
    /\ \E i \in 1..3 : store[i].source = "withings"
    /\ direct.n > 0
    /\ pc # "idle"
    /\ dpc = "done"

\* C20: a request to /agent/commit whose body has no consent object, or a
\* consent.status other than "granted", is answered 403 and leaves the
\* table unchanged; the request inserts a row only when consent.status is
\* "granted", and the row is then the body it sent.
C20_CommitNeedsConsent ==
    [][ (direct'.n # direct.n /\ direct'.endpoint = "commit") =>
          /\ direct'.consent # "granted" =>
                (direct'.status = 403 /\ store' = store)
          /\ store' # store =>
                /\ direct'.consent = "granted"
                /\ direct'.status = 200
                /\ store' = Append(store, DirectBody("decision", "granted")) ]_vars

\* a commit with consent.status "denied" was answered 403 while the table
\* held the user message of a chat turn, and the table still holds just
\* that row
C20_Witness ==
    /\ direct.endpoint = "commit"
    /\ direct.consent = "denied"
    /\ direct.status = 403
    /\ store = << UserMessageEntry >>

\* a commit with consent.status "granted" inserted its row
C20_WitnessGranted ==
    /\ direct.endpoint = "commit"
    /\ direct.consent = "granted"
    /\ direct.status = 200
    /\ store # <<>>
    /\ store[Len(store)] = DirectBody("decision", "granted")

\* C16: entry_ts is monotonic by insertion: of any two rows of the table,
\* the one inserted later carries a later or equal entry_ts, also when the
\* rows come from concurrent requests.
C16_EntryTsMonotonic ==
    \A i \in 1..Len(store) : \A j \in 1..Len(store) :
       i < j => store[i].entry_ts <= store[j].entry_ts

\* two rows of one request after the other are in the order of their stamps
C16_SequentialWitness ==
    /\ Len(store) = 2
    /\ store[1].entry_ts < store[2].entry_ts

-----------------------------------------------------------------------------
(* Token lifecycle *)

\* the invocation found a record and found it expired
ObservedExpired(c) ==
    /\ callers[c].pc \in {"refresh", "save", "done"}
    /\ callers[c].tokens.present
    /\ callers[c].checkedAt >= callers[c].tokens.expires_at

RequestsOf(c) == SelectSeq(tokenRequests, LAMBDA r : r.caller = c)

WritesOf(c) == SelectSeq(tokenWrites, LAMBDA w : w.by = c)

\* C17: an invocation of getValidAccessToken that has ended
\* - failed as not authenticated, without contacting the provider, when it
\*   found no token record;
\* - returned the stored access token, without contacting the provider, when
\*   now < expires_at;
\* - otherwise (now >= expires_at, the instant now = expires_at included)
\*   sent a refresh request, and then returned the new access token only if
\*   the provider accepted and the new record was saved, failed when the
\*   provider rejected the grant (or the request threw), and failed when the
\*   save failed.
C17_TokenLifecycle ==
    \A c \in Callers :
       callers[c].pc = "done" =>
          LET k == callers[c] IN
          /\ ~k.tokens.present =>
                (k.result = "not_authenticated" /\ k.sent = 0)
          /\ (k.tokens.present /\ k.checkedAt < k.tokens.expires_at) =>
                /\ k.result = "token"
                /\ k.access = k.tokens.access_token
                /\ k.sent = 0
          /\ (k.tokens.present /\ k.checkedAt >= k.tokens.expires_at) =>
                /\ k.sent = 1
                /\ k.result = "token" =>
                      /\ k.answer = "ok"
                      /\ k.saved
                      /\ k.access = k.data
                      /\ k.access # k.tokens.access_token
                      /\ \E n \in 1..Len(tokenWrites) :
                            tokenWrites[n] = [by |-> c, access_token |-> k.data]
                /\ k.answer \in {"rejected", "thrown"} => k.result = "refresh_failed"
                /\ (k.answer = "ok" /\ ~k.saved) => k.result = "save_failed"

\* an invocation checked at the very instant the record expires (clock 2 =
\* expires_at), refreshed, saved and returned the new access token
C17_Witness ==
    \E c \in Callers :
       /\ callers[c].pc = "done"
       /\ callers[c].tokens = StoredRecord
       /\ callers[c].checkedAt = StoredRecord.expires_at
       /\ callers[c].result = "token"
       /\ callers[c].access # StoredRecord.access_token
       /\ tokenRecord.access_token = callers[c].access

\* C18: every invocation of getValidAccessToken makes at most one provider
\* round-trip, exactly one when it found the record expired; refreshes are
\* not deduplicated: every invocation that observed the expired record sent
\* its own request, carrying the refresh token it read; every invocation
\* whose refresh was accepted and saved wrote the record once, and the
\* record holds the pair written last.
C18_RefreshNotDeduplicated ==
    /\ \A c \in Callers :
          /\ callers[c].sent <= 1
          /\ callers[c].sent = 1 <=> ObservedExpired(c)
          /\ Len(RequestsOf(c)) = callers[c].sent
          /\ \A n \in 1..Len(RequestsOf(c)) :
                RequestsOf(c)[n].refresh_token = callers[c].tokens.refresh_token
          /\ Len(WritesOf(c)) = IF callers[c].saved THEN 1 ELSE 0
          /\ (callers[c].pc = "done" /\ callers[c].answer = "ok")
                => (callers[c].saved <=> callers[c].result = "token")
    /\ tokenWrites # <<>> =>
          /\ tokenRecord.present
          /\ tokenRecord.access_token = tokenWrites[Len(tokenWrites)].access_token
          /\ tokenRecord.refresh_token = tokenWrites[Len(tokenWrites)].access_token

\* both invocations read the expired record, both sent a refresh request
\* with the same refresh token, both saved; the record holds the pair of the
\* one that saved last, and the other returned a token the record no longer
\* holds
C18_Witness ==
    /\ \A c \in Callers : callers[c].pc = "done" /\ callers[c].sent = 1
    /\ \A c \in Callers : callers[c].saved
    /\ Len(tokenRequests) = 2
    /\ tokenRequests[1].refresh_token = tokenRequests[2].refresh_token
    /\ tokenRequests[1].caller # tokenRequests[2].caller
    /\ Len(tokenWrites) = 2
    /\ tokenRecord.access_token = tokenWrites[2].access_token
    /\ callers[tokenWrites[1].by].access # tokenRecord.access_token

\* C19: the callback answers 400 when no code is given, 500 when the token
\* exchange is rejected or when persisting the tokens fails, and 200 with
\* {message, expires_in} whenever the exchange succeeds and saveTokens
\* persisted the record.
C19_CallbackStatuses ==
    callback.n > 0 =>
       /\ ~callback.hasCode => callback.status = 400
       /\ (callback.hasCode /\ callback.answer = "rejected") => callback.status = 500
       /\ (callback.hasCode /\ callback.answer = "ok" /\ ~callback.saved)
             => callback.status = 500
       /\ (callback.hasCode /\ callback.answer = "ok" /\ callback.saved)
             => (callback.status = 200 /\ callback.expires_in = ExpiresIn)

\* the exchange succeeded and the record was written
C19_SavedState ==
    /\ callback.n > 0
    /\ callback.answer = "ok"
    /\ callback.saved
    /\ tokenRecord.present
    /\ tokenRecord.access_token = tokenWrites[Len(tokenWrites)].access_token

-----------------------------------------------------------------------------
(* Failures of persistence and of analysis; sequencing of a poll *)

\* C21: no persistence failure is dropped: a chat turn that ends with a
\* success answer had every insert it made succeed, the insert of the
\* incoming user message (the first row of the table) included, and its
\* analysis entry written.
C21_PersistenceFailureIs500 ==
    (pc = "done" /\ response.status = 200) =>
       /\ store # <<>>
       /\ store[1] = UserMessageEntry
       /\ analysis = "ok"

\* a success answer of a turn whose user message was stored
C21_StoredTurn ==
    /\ pc = "done"
    /\ response.status = 200
    /\ store # <<>>
    /\ store[1] = UserMessageEntry

\* C22 (as stated): when a poll has decided to trigger and the analyzer
\* then fails (credential absent, engine unreachable, insert failed ...),
\* the request answers 500.
C22_DailyAnalysisFailureIs500 ==
    (dpc = "done" /\ dailyAnalysis \notin {"none", "ok"}) =>
       dailyResponse.status = 500

\* C22 (amended): in /health/daily a failure of the analyzer is caught and
\* logged: the step that runs the analysis always ends with the ordinary
\* answer, status 200 with the snapshot and the data points, and when the
\* analyzer failed no row is written.
C22_DailyAnalysisFailureTolerated ==
    [][ (dpc = "analyze" /\ dpc' = "done") =>
          /\ dailyResponse'.status = 200
          /\ dailyResponse'.snapshot = snapshot
          /\ dailyResponse'.data_points = dataPoints
          /\ dailyAnalysis' # "none"
          /\ dailyAnalysis' # "ok" => store' = store
          /\ dailyAnalysis' = "ok" => Len(store') = Len(store) + 1 ]_vars

\* a cold-start poll whose analyzer found no engine credential answered 200
C22_Witness ==
    /\ dpc = "done"
    /\ shouldTriggerAgent
    /\ dailyAnalysis = "no_key"
    /\ ~apiKey
    /\ dailyResponse.status = 200
    /\ store = <<>>

DailyOrder ==
    { <<"idle", "measure">>, <<"idle", "done">>, <<"measure", "sleep">>,
      <<"measure", "done">>, <<"sleep", "detect">>, <<"detect", "analyze">>,
      <<"detect", "done">>, <<"analyze", "done">> }

\* C23: the calls of a poll are strictly sequenced. The handler moves only
\* token -> measurement fetch -> sleep fetch -> read of the most recent
\* measurement entry -> analyzer -> answer (leaving early only with an
\* answer); the measurement answer arrives only in the measurement step,
\* the sleep answer only in the sleep step and after the measurement answer,
\* the read only in the detection step, and the analyzer's write only in
\* the analysis step: every step completes one call and no two overlap.
C23_StrictSequence ==
    [][ /\ dpc' # dpc => <<dpc, dpc'>> \in DailyOrder
        /\ measureRes' # measureRes => (dpc = "measure" /\ sleepRes = NoProviderResponse)
        /\ sleepRes' # sleepRes =>
              (dpc = "sleep" /\ MeasureRan /\ measureRes' = measureRes)
        /\ (recentMeasurements' # recentMeasurements \/ shouldTriggerAgent' # shouldTriggerAgent) =>
              (dpc = "detect" /\ sleepRes' = sleepRes /\ sleepRes # NoProviderResponse)
        /\ (store' # store \/ dailyAnalysis' # dailyAnalysis) =>
              (dpc = "analyze" /\ shouldTriggerAgent
               /\ recentMeasurements' = recentMeasurements) ]_vars

\* a poll that went through all five steps and wrote its analysis
C23_Witness ==
    /\ dpc = "done"
    /\ dailyResponse.status = 200
    /\ MeasureRan /\ measureRes.status = 0
    /\ sleepRes.status = 0 /\ ~sleepRes.thrown
    /\ recentMeasurements # <<>>
    /\ shouldTriggerAgent
    /\ dailyAnalysis = "ok"

\* C27: a metric that is null in the new snapshot or in the prior entry
\* contributes no change: when a prior entry was read, a trigger needs a
\* metric that is non-null on both sides and reaches its threshold; an
\* all-null snapshot compared with a prior entry never triggers.
C27_NullIsNoChange ==
    (Detected /\ recentMeasurements # <<>>) =>
       LET last == recentMeasurements[1].metrics IN
       /\ shouldTriggerAgent =>
             \E k \in {"weight_kg", "heart_pulse_bpm", "hrv", "sleep_duration_minutes"} :
                /\ snapshot[k] # Null
                /\ last[k] # Null
                /\ snapshot[k] # last[k]
       /\ snapshot = EmptySnapshot => ~shouldTriggerAgent

\* a poll with an all-null snapshot read the full entry of an earlier poll
\* and did not trigger
C27_Witness ==
    /\ dpc = "done"
    /\ dailyResponse.status = 200
    /\ snapshot = EmptySnapshot
    /\ recentMeasurements # <<>>
    /\ recentMeasurements[1].metrics["weight_kg"] = 700
    /\ ~shouldTriggerAgent
    /\ dailyAnalysis = "none"

\* a heart rate far from the prior one triggers while the weight is missing
C27_WitnessPartial ==
    /\ Detected
    /\ recentMeasurements # <<>>
    /\ snapshot["weight_kg"] = Null
    /\ snapshot["heart_pulse_bpm"] # Null
    /\ shouldTriggerAgent

\* the readings of type t that carry the greatest group timestamp, and the
\* one of them that comes last in the response
LastOfLatest(t) ==
    CHOOSE r \in LatestOf(t) :
       \A q \in LatestOf(t) :
          q.grp < r.grp \/ (q.grp = r.grp /\ q.pos <= r.pos)

\* C30: when two readings of one metric type carry the same, greatest group
\* timestamp, the one that comes last in the provider's response is the one
\* retained in the snapshot and in the data points.
C30_TieLastWins ==
    MeasuresParsed =>
       \A t \in MeasTypes :
          Cardinality(LatestOf(t)) >= 2 =>
             /\ TypeMapping(t).snapshotKey # "none" =>
                   snapshot[TypeMapping(t).snapshotKey] = LastOfLatest(t).value
             /\ \E i \in 1..Len(dataPoints) :
                   /\ dataPoints[i].key = TypeMapping(t).key
                   /\ dataPoints[i].value = LastOfLatest(t).value

-----------------------------------------------------------------------------
(* The decision a chat turn commits *)

\* the tool call being dispatched
DispatchedCall == responseMessage.tool_calls[callIdx].function

\* C25: with the turn's consent boolean true, what a commit_agent_decision
\* call persists is a row with entry_type decision, source agent,
\* consent.status granted and consent.granted_at stamped by the server at
\* dispatch: the status and granted_at of the engine's arguments never reach
\* the table, and a call answered "committed" has persisted that row.
C25_ServerStampedConsent ==
    [][ (pc = "dispatch" /\ DispatchedCall.name = "commit_agent_decision") =>
          /\ store' # store =>
                /\ hasConsent
                /\ store' = Append(store,
                      [entry_type |-> "decision", source |-> "agent",
                       title |-> "agent decision", consent |-> "granted",
                       granted_at |-> "server", has_metrics |-> FALSE,
                       metrics |-> EmptySnapshot])
          /\ (committed' /\ ~committed) => store' # store ]_vars

\* the engine asked to commit with a consent object of status "denied" and
\* its own granted_at; the turn had consent and the row it stored is granted
\* and server-stamped
C25_Witness ==
    /\ hasConsent
    /\ committed
    /\ toolTrace # <<>>
    /\ toolTrace[Len(toolTrace)].function = "commit_agent_decision"
    /\ toolTrace[Len(toolTrace)].arguments.consent = "denied"
    /\ toolTrace[Len(toolTrace)].arguments.granted_at = "engine"
    /\ store # <<>>
    /\ store[Len(store)].entry_type = "decision"
    /\ store[Len(store)].consent = "granted"
    /\ store[Len(store)].granted_at = "server"

-----------------------------------------------------------------------------
(* Classification of a chat message *)

\* the words a message is made of here: every keyword of the three
\* categories, a consent word and a word of no category
ClassifyWords ==
    NutritionWords \cup TrainingWords \cup ChangeWords \cup {"teadken", "shalom"}

\* messages of at most two different words
ClassifyMessages ==
    { m \in SUBSET ClassifyWords : Cardinality(m) <= 2 }

\* chat turns over these messages; the engine asks for at most one tool
NextClassify ==
    \/ \E m \in ClassifyMessages : ChatStart(m)
    \/ EngineCall /\ requested' <= 1
    \/ DispatchToolCall
    \/ ChatAnalyze

SpecClassify == Init /\ [][NextClassify]_vars

\* the classification as the claim words it
ClaimedEntryType ==
    IF message \cap (NutritionWords \cup TrainingWords) # {} THEN "adherence"
    ELSE IF message \cap ChangeWords # {} THEN "intervention"
    ELSE "insight"

\* C29: the entry the analyzer writes at the end of a chat turn has the
\* entry_type classified from the user's message alone: adherence if it has
\* a nutrition or training keyword, else intervention if it has a
\* behaviour-change keyword, else insight; with both an adherence and a
\* behaviour-change keyword it is adherence, and it is never measurement,
\* event or decision, whatever the engine replied and whatever tools ran.
C29_ChatEntryTypeClassified ==
    [][ (pc = "analyze" /\ store' # store) =>
          /\ store' = Append(store, store'[Len(store')])
          /\ store'[Len(store')].source = "user"
          /\ store'[Len(store')].entry_type = ClaimedEntryType
          /\ store'[Len(store')].entry_type \in {"adherence", "intervention", "insight"}
          /\ (message \cap (NutritionWords \cup TrainingWords) # {}
              /\ message \cap ChangeWords # {}) =>
                store'[Len(store')].entry_type = "adherence" ]_vars

\* a message with a training keyword and a behaviour-change keyword ended
\* with an adherence entry, after a tool call had run
C29_Witness ==
    /\ pc = "done"
    /\ response.status = 200
    /\ message = {"koach", "ashane"}
    /\ toolTrace # <<>>
    /\ store[Len(store)].source = "user"
    /\ store[Len(store)].entry_type = "adherence"

\* a message with only a behaviour-change keyword ended with an
\* intervention entry, one with no keyword with an insight entry
C29_WitnessIntervention ==
    /\ pc = "done"
    /\ response.status = 200
    /\ message = {"matchil", "teadken"}
    /\ store[Len(store)].entry_type = "intervention"

C29_WitnessInsight ==
    /\ pc = "done"
    /\ response.status = 200
    /\ message = {"shalom", "teadken"}
    /\ store[Len(store)].entry_type = "insight"

-----------------------------------------------------------------------------
(* The Progress Analyzer, one awaited call at a time (src/index.js 25-162) *)

\* analysis.summary.substring(0, 100)
TitleLength == 100

\* a text of n characters whose last character differs from the others
Chars(n) == [i \in 1..n |-> IF i = n THEN "z" ELSE "a"]

\* 'No summary'
NoSummaryTitle == <<"N", "o", " ", "s", "u", "m", "m", "a", "r", "y">>

\* what the engine call of the analyzer can give: it throws, its content is
\* not JSON, or it is a JSON object without a summary, with an empty one,
\* or with one of 3, 100 or 101 characters
EngineAnswers ==
    { [thrown |-> TRUE,  json |-> FALSE, has_summary |-> FALSE, summary |-> <<>>],
      [thrown |-> FALSE, json |-> FALSE, has_summary |-> FALSE, summary |-> <<>>],
      [thrown |-> FALSE, json |-> TRUE,  has_summary |-> FALSE, summary |-> <<>>] }
    \cup
    { [thrown |-> FALSE, json |-> TRUE, has_summary |-> TRUE, summary |-> Chars(n)] :
        n \in {0, 3, TitleLength, TitleLength + 1} }

\* the inputs the two callers pass
AnalyzerInputs ==
    { [snapshot |-> snap, source |-> c[1], entry_type |-> c[2]] :
        snap \in {EmptySnapshot, Metrics(700, 600, 500, 420),
                  Metrics(705, Null, Null, Null)},
        c \in {<<"withings", "measurement">>, <<"user", "insight">>,
               <<"user", "adherence">>} }

\* title: analysis.summary ? analysis.summary.substring(0, 100) : 'No summary'
\* (variant: the whole summary)
ProgressTitle_Whole(has_summary, summary) ==
    IF has_summary /\ summary # <<>> THEN summary ELSE NoSummaryTitle

ProgressTitle(has_summary, summary) ==
    IF has_summary /\ summary # <<>>
    THEN SubSeq(summary, 1, Min(TitleLength, Len(summary)))
    ELSE NoSummaryTitle

\* const progressEntry
ProgressEntry(call) ==
    [entry_type |-> call.entry_type, source |-> call.source,
     title |-> ProgressTitle(call.has_summary, call.summary),
     consent |-> "none", granted_at |-> "none", has_metrics |-> TRUE,
     metrics |-> call.snapshot]

\* the call and its credential check
AnalyzerCall(input) ==
    /\ analyzer.pc = "idle"
    /\ analyzer' = [analyzer EXCEPT
                      !.pc = IF apiKey THEN "history" ELSE "failed",
                      !.snapshot = input.snapshot,
                      !.source = input.source,
                      !.entry_type = input.entry_type]
    /\ UNCHANGED <<store, apiKey, chatVars, dailyVars, direct, writerVars,
                   tokenVars, stateReads, polls>>

\* the read of the recent history
AnalyzerHistory(dbOk) ==
    /\ analyzer.pc = "history"
    /\ analyzer' = [analyzer EXCEPT
                      !.pc = IF dbOk THEN "engine" ELSE "failed",
                      !.ops = Append(@, "history_read")]
    /\ UNCHANGED <<store, apiKey, chatVars, dailyVars, direct, writerVars,
                   tokenVars, stateReads, polls>>

\* openai.chat.completions.create and JSON.parse of its content
AnalyzerEngine(answer) ==
    /\ analyzer.pc = "engine"
    /\ analyzer' = [analyzer EXCEPT
                      !.pc = IF answer.thrown \/ ~answer.json
                             THEN "failed" ELSE "insert",
                      !.has_summary = answer.has_summary,
                      !.summary = answer.summary,
                      !.ops = Append(@, "engine_call")]
    /\ UNCHANGED <<store, apiKey, chatVars, dailyVars, direct, writerVars,
                   tokenVars, stateReads, polls>>

\* the insert of progressEntry
AnalyzerInsert(dbOk) ==
    /\ analyzer.pc = "insert"
    /\ store' = IF dbOk THEN Append(store, ProgressEntry(analyzer)) ELSE store
    /\ analyzer' = [analyzer EXCEPT
                      !.pc = IF dbOk THEN "returned" ELSE "failed",
                      !.ops = Append(@, "insert")]
    /\ UNCHANGED <<apiKey, chatVars, dailyVars, direct, writerVars,
                   tokenVars, stateReads, polls>>

InitAnalyzer ==
    /\ store \in {<<>>, << UserMessageEntry >>}
    /\ apiKey \in BOOLEAN
    /\ ChatIdle
    /\ DailyIdle
    /\ SideIdle

NextAnalyzer ==
    \/ \E input \in AnalyzerInputs : AnalyzerCall(input)
    \/ \E dbOk \in BOOLEAN : AnalyzerHistory(dbOk)
    \/ \E answer \in EngineAnswers : AnalyzerEngine(answer)
    \/ \E dbOk \in BOOLEAN : AnalyzerInsert(dbOk)

SpecAnalyzer == InitAnalyzer /\ [][NextAnalyzer]_vars

AnalyzerOver == analyzer.pc \in {"returned", "failed"}

OpsCount(op) ==
    Cardinality({i \in 1..Len(analyzer.ops) : analyzer.ops[i] = op})

\* the first n characters of a text
FirstChars(text, n) == SubSeq(text, 1, IF Len(text) < n THEN Len(text) ELSE n)

\* what C28 says of a call apart from the title of its entry
AnalyzerShape ==
    /\ OpsCount("engine_call") <= 1
    /\ OpsCount("insert") <= 1
    /\ \E n \in 0..3 :
         analyzer.ops = SubSeq(<<"history_read", "engine_call", "insert">>, 1, n)
    /\ (AnalyzerOver /\ OpsCount("history_read") = 1
        /\ analyzer.ops # <<"history_read">>) => OpsCount("engine_call") = 1
    /\ analyzer.pc = "returned" =>
         /\ analyzer.ops = <<"history_read", "engine_call", "insert">>
         /\ store # <<>>
         /\ store[Len(store)].metrics = analyzer.snapshot
         /\ store[Len(store)].entry_type = analyzer.entry_type
         /\ store[Len(store)].source = analyzer.source
    /\ (analyzer.pc # "idle" /\ ~apiKey) =>
         (analyzer.pc = "failed" /\ analyzer.ops = <<>>)

\* the table changes only by the insert of a call that then returns, and by
\* one row
AnalyzerWrites ==
    store' # store =>
       /\ analyzer.pc = "insert"
       /\ analyzer'.pc = "returned"
       /\ store' = Append(store, store'[Len(store')])

\* C28 (as stated): one call of the analyzer makes one engine call and, on
\* success, one insert, in the order history read, engine call, insert; the
\* inserted entry has title = the first 100 characters of the engine's
\* summary and metrics = the input snapshot; without the credential the call
\* fails before any read, engine call or insert.
C28_AnalyzerContract ==
    /\ [][AnalyzerWrites]_vars
    /\ [](/\ AnalyzerShape
          /\ analyzer.pc = "returned" =>
                store[Len(store)].title = FirstChars(analyzer.summary, 100))

\* C28 (amended): the same, with the title the code gives when the engine's
\* JSON has no summary or an empty one: 'No summary'.
C28_AnalyzerContractNoSummary ==
    /\ [][AnalyzerWrites]_vars
    /\ [](/\ AnalyzerShape
          /\ analyzer.pc = "returned" =>
                store[Len(store)].title =
                   IF analyzer.has_summary /\ analyzer.summary # <<>>
                   THEN FirstChars(analyzer.summary, 100)
                   ELSE NoSummaryTitle)

\* a call whose engine answer had a summary of 101 characters stored an
\* entry whose title is its first 100
C28_Witness ==
    /\ analyzer.pc = "returned"
    /\ Len(analyzer.summary) = 101
    /\ Len(store[Len(store)].title) = 100
    /\ store[Len(store)].title # Chars(100)

\* a call whose engine answer had no summary stored an entry titled
\* 'No summary'
C28_WitnessNoSummary ==
    /\ analyzer.pc = "returned"
    /\ ~analyzer.has_summary
    /\ store[Len(store)].title = NoSummaryTitle

-----------------------------------------------------------------------------
(* GET /agent/state over a table of stamped rows *)

\* .limit(100)
StateLimit == 100

\* number of GET /agent/state requests
MaxReads == 2

\* tables left by earlier requests: n rows stamped before the clock's 0,
\* inserted oldest first, newest first, or all with one stamp
SeedTable(n, order) ==
    [i \in 1..n |->
       [kind |-> "event",
        entry_ts |-> CASE order = "oldest_first" -> i - n - 1
                       [] order = "newest_first" -> 0 - i
                       [] OTHER -> 0]]

SeedTables ==
    { <<>>, SeedTable(StateLimit - 1, "oldest_first"),
      SeedTable(StateLimit, "newest_first"), SeedTable(StateLimit, "one_stamp") }

\* .order("entry_ts", { ascending: false }).limit(100): the rows by
\* descending entry_ts, cut after the first 100. The order the database
\* gives rows of equal entry_ts is not set by the query; it is taken to be
\* the physical order of the table, which only a write changes.
\* (variant: ascending)
StateQuery_OldestFirst(st) ==
    LET tagged == [i \in 1..Len(st) |-> [pos |-> i, row |-> st[i]]]
        Older(a, b) == \/ a.row.entry_ts < b.row.entry_ts
                       \/ a.row.entry_ts = b.row.entry_ts /\ a.pos < b.pos
        sorted == SortSeq(tagged, Older)
    IN  [i \in 1..Min(StateLimit, Len(st)) |-> sorted[i].row]

StateQuery(st) ==
    LET tagged == [i \in 1..Len(st) |-> [pos |-> i, row |-> st[i]]]
        Newer(a, b) == \/ a.row.entry_ts > b.row.entry_ts
                       \/ a.row.entry_ts = b.row.entry_ts /\ a.pos < b.pos
        sorted == SortSeq(tagged, Newer)
    IN  [i \in 1..Min(StateLimit, Len(st)) |-> sorted[i].row]

\* one GET /agent/state request: the query and its answer
StateRead(dbOk) ==
    /\ Len(stateReads) < MaxReads
    /\ LET r == AgentStateHandler(store, dbOk)
       IN  /\ store' = r.store
           /\ stateReads' = Append(stateReads,
                 [rows |-> Len(store), status |-> r.status,
                  count |-> IF r.status = 200 THEN Len(StateQuery(store)) ELSE 0,
                  entries |-> IF r.status = 200 THEN StateQuery(store) ELSE <<>>])
    /\ UNCHANGED <<apiKey, chatVars, dailyVars, direct, writerVars, tokenVars,
                   analyzer, polls>>

InitState ==
    /\ store \in SeedTables
    /\ apiKey = TRUE
    /\ ChatIdle
    /\ DailyIdle
    /\ SideIdle

\* reads of the state among writers of events and decisions
NextState ==
    \/ Tick
    \/ \E w \in Writers, kind \in {"event", "commit"} : Stamp(w, kind)
    \/ \E w \in Writers, dbOk \in BOOLEAN : Insert(w, dbOk)
    \/ \E dbOk \in BOOLEAN : StateRead(dbOk)

SpecState == InitState /\ [][NextState]_vars

\* the answer of the request that has just been served
LastRead == stateReads'[Len(stateReads')]

\* C24, read-only and content: a GET /agent/state request leaves the table
\* as it is, and a successful one returns min(100, rows) entries, newest
\* first, which are the rows with the greatest entry_ts: every row newer
\* than the oldest entry returned is returned.
StateReadContent ==
    stateReads' # stateReads =>
       /\ store' = store
       /\ LastRead.status = 200 =>
            LET e == LastRead.entries
                n == Len(e)
            IN  /\ n = Min(100, Len(store))
                /\ LastRead.count = n
                /\ \A i \in 1..(n - 1) : e[i].entry_ts >= e[i + 1].entry_ts
                /\ n > 0 =>
                     LET oldest == e[n].entry_ts
                         newerInStore == {i \in 1..Len(store) : store[i].entry_ts > oldest}
                         newerInAnswer == {i \in 1..n : e[i].entry_ts > oldest}
                     IN  /\ Cardinality(newerInStore) = Cardinality(newerInAnswer)
                         /\ {store[i] : i \in newerInStore} = {e[i] : i \in newerInAnswer}
                         /\ \A i \in 1..n : \E j \in 1..Len(store) : store[j] = e[i]

C24_WitnessWrite ==
    /\ Len(stateReads) = 2
    /\ stateReads[1].status = 200 /\ stateReads[2].status = 200
    /\ stateReads[1].rows = 100 /\ stateReads[2].rows = 101
    /\ stateReads[1].entries # stateReads[2].entries

-----------------------------------------------------------------------------
(* Concurrent /health/daily polls and chat turns at the trigger block *)

\* the snapshots the polls arrive with: weights 70.0, 70.3 and 70.6 kg
PollSnapshots == { Metrics(w, 600, 500, 420) : w \in {700, 703, 706} }

\* the read of the most recent measurement entry and the decision
\* (src/index.js 466-503); a poll that does not trigger answers at once.
\* Poll 3 belongs to the next cycle: it starts when polls 1 and 2 are over.
PollDetect(p, snap) ==
    /\ polls[p].pc = "idle"
    /\ p = 3 => (polls[1].pc = "done" /\ polls[2].pc = "done")
    /\ LET recent == RecentMeasurementsQuery(store, TRUE)
       IN  polls' = [polls EXCEPT ![p] =
                       [pc |-> IF ShouldTrigger(recent, snap)
                               THEN "analyze" ELSE "done",
                        snapshot |-> snap,
                        seen |-> recent,
                        trigger |-> ShouldTrigger(recent, snap),
                        analysis |-> "none"]]
    /\ UNCHANGED <<store, apiKey, chatVars, dailyVars, direct, writerVars,
                   tokenVars, analyzer, stateReads>>

\* the awaited analyzer call of a triggered poll (src/index.js 510-527)
PollAnalyze(p, outcome) ==
    /\ polls[p].pc = "analyze"
    /\ LET agentResult ==
             analyze_and_persist_progress(polls[p].snapshot, "withings",
                                          "measurement", store, apiKey, outcome)
       IN  /\ store' = agentResult.store
           /\ polls' = [polls EXCEPT
                          ![p].pc = "done",
                          ![p].analysis = IF agentResult.ok THEN "ok" ELSE outcome]
    /\ UNCHANGED <<apiKey, chatVars, dailyVars, direct, writerVars,
                   tokenVars, analyzer, stateReads>>

InitPolls ==
    /\ store \in { <<>>, << MeasurementEntry(Metrics(700, 600, 500, 420)) >> }
    /\ apiKey = TRUE
    /\ ChatIdle
    /\ DailyIdle
    /\ SideIdle

\* two concurrent polls, the poll of the next cycle, and a chat turn whose
\* engine asks for no tool
NextPolls ==
    \/ \E p \in PollIds, snap \in PollSnapshots : PollDetect(p, snap)
    \/ \E p \in PollIds, outcome \in {"ok", "engine_error"} : PollAnalyze(p, outcome)
    \/ ChatStart({"shalom"})
    \/ EngineCall /\ requested' = 0 /\ responseMessage'.content = "text"
    \/ ChatAnalyze

SpecPolls == InitPolls /\ [][NextPolls]_vars

\* the measurement entry of the table that was inserted last, if any
LatestMeasurement ==
    LET idx == {i \in 1..Len(store) :
                   store[i].source = "withings" /\ store[i].entry_type = "measurement"}
    IN  IF idx = {} THEN <<>>
        ELSE << store[CHOOSE i \in idx : \A j \in idx : j <= i] >>

\* poll p writes its analysis entry in this step
PollWrites(p) ==
    /\ polls[p].pc = "analyze"
    /\ polls'[p].pc = "done"
    /\ store' # store

\* the poll of the next cycle has left the table in step with its snapshot:
\* it did not trigger, or its analysis was stored
CaughtUp ==
    (polls[3].pc = "done" /\ polls[3].analysis \in {"none", "ok"}) =>
       ~ShouldTrigger(LatestMeasurement, polls[3].snapshot)

\* C26 (as stated): under any interleaving of concurrent polls and chat
\* turns, a stale read of the most recent entry at worst delays a trigger by
\* one cycle: a poll never analyses because of it (when a poll writes its
\* analysis, its snapshot differs significantly from the entry that is the
\* most recent one then, or there is none), and a trigger that was missed is
\* raised by the poll of the next cycle.
C26_StaleReadOnlyDelays ==
    /\ [][ \A p \in PollIds :
             PollWrites(p) =>
                ShouldTrigger(LatestMeasurement, polls[p].snapshot) ]_vars
    /\ []CaughtUp

\* C26 (amended): a poll decides on the entry it read: it writes an analysis
\* only if its snapshot differs significantly from that entry (or it read
\* none), also when another poll has stored an entry in the meantime, so one
\* change can be analysed twice; a trigger missed in one cycle is raised by
\* the poll of the next cycle; chat turns never change what the detector
\* reads.
C26_StaleReadDelaysOrRepeats ==
    /\ [][ /\ \A p \in PollIds :
               PollWrites(p) =>
                  /\ polls[p].trigger
                  /\ ShouldTrigger(polls[p].seen, polls[p].snapshot)
                  /\ store' = Append(store, MeasurementEntry(polls[p].snapshot))
           /\ pc' # pc => LatestMeasurement' = LatestMeasurement ]_vars
    /\ []CaughtUp

\* the delay: poll 2 read the entry of 70.0 kg with a snapshot of 70.0 kg and
\* did not trigger, while poll 1 stored 70.6 kg; the poll of the next
\* cycle, with the same 70.0 kg, triggered and stored its analysis
C26_Witness ==
    /\ polls[1].analysis = "ok" /\ polls[1].snapshot["weight_kg"] = 706
    /\ polls[2].pc = "done" /\ ~polls[2].trigger
    /\ polls[2].snapshot["weight_kg"] = 700
    /\ polls[2].seen # <<>>
    /\ polls[3].pc = "done" /\ polls[3].trigger /\ polls[3].analysis = "ok"
    /\ polls[3].snapshot = polls[2].snapshot
    /\ polls[3].seen # <<>> /\ polls[3].seen[1].metrics["weight_kg"] = 706
    /\ LatestMeasurement[1].metrics["weight_kg"] = 700

\* the repetition: polls 1 and 2 read the same entry with the same snapshot
\* and both stored an analysis of it
C26_WitnessTwice ==
    /\ polls[1].analysis = "ok" /\ polls[2].analysis = "ok"
    /\ polls[1].snapshot = polls[2].snapshot
    /\ polls[1].seen = polls[2].seen
    /\ polls[1].seen # <<>>
    /\ Len(store) >= 3
    /\ \E i \in 1..Len(store) : \E j \in 1..Len(store) :
          /\ i < j
          /\ store[i] = MeasurementEntry(polls[1].snapshot)
          /\ store[j] = MeasurementEntry(polls[1].snapshot)

-----------------------------------------------------------------------------
(* The snapshot a chat turn analyses *)

\* the rows whose metrics column is not null, by position in the table
RowsWithMetrics(st) == {i \in 1..Len(st) : st[i].has_metrics}

C31_WitnessMeasurement ==
    /\ pc = "done"
    /\ response.status = 200
    /\ toolTrace = <<>>
    /\ store # <<>>
    /\ store[Len(store)].source = "user"
    /\ store[Len(store)].metrics["weight_kg"] = 705

-----------------------------------------------------------------------------
(* Decisions and consent, over all endpoints *)

\* C32: in every reachable state of the table, whatever requests were made
\* to the endpoints, each entry with entry_type decision carries a consent
\* object with status granted.
C32_DecisionsHaveConsent ==
    \A i \in 1..Len(store) :
       store[i].entry_type = "decision" => store[i].consent = "granted"

-----------------------------------------------------------------------------
(* Tool results handed back to the engine *)

\* position of the last assistant message of the message list
LastAssistant ==
    CHOOSE a \in 1..Len(messages) :
       /\ messages[a].role = "assistant"
       /\ \A b \in (a + 1)..Len(messages) : messages[b].role # "assistant"

\* a follow-up engine call is about to be made
BeforeFollowUp == pc = "engine" /\ iteration >= 1

\* C33: before each follow-up engine call the message list ends with the
\* last assistant message followed by one tool message per tool call of
\* that message, carrying the call's id, in the order of the calls, and
\* nothing else; also for calls the consent gate rejected, calls that
\* failed and calls of a function that does not exist.
C33_ToolResultPerCall ==
    BeforeFollowUp =>
       LET a == LastAssistant
           calls == messages[a].tool_calls
       IN  /\ Len(messages) = a + Len(calls)
           /\ \A k \in 1..Len(calls) :
                /\ messages[a + k].role = "tool"
                /\ messages[a + k].tool_call_id = calls[k].id
           /\ \A k \in 1..Len(calls) :
                Cardinality({b \in 1..Len(messages) :
                               /\ messages[b].role = "tool"
                               /\ messages[b].tool_call_id = calls[k].id}) = 1

\* before the follow-up call of a turn without consent: a rejected commit
\* and a call of an unknown function, each with its tool message
C33_Witness ==
    /\ BeforeFollowUp
    /\ ~hasConsent
    /\ Len(messages[LastAssistant].tool_calls) = 2
    /\ messages[LastAssistant].tool_calls[1].function.name = "commit_agent_decision"
    /\ messages[LastAssistant].tool_calls[2].function.name = "no_such_tool"
    /\ messages[Len(messages) - 1].content = "consent_error"
    /\ messages[Len(messages)].content = "undefined"

\* the same with a call whose request failed
C33_WitnessFailed ==
    /\ BeforeFollowUp
    /\ Len(messages[LastAssistant].tool_calls) = 2
    /\ messages[Len(messages) - 1].content = "error"
    /\ messages[Len(messages)].role = "tool"
    /\ messages[Len(messages)].content = "saved"

-----------------------------------------------------------------------------
(* Errors of a dispatched tool *)

\* the dispatch of a tool call ends in this step with an error result
DispatchFailed ==
    /\ pc = "dispatch"
    /\ Len(messages') = Len(messages) + 1
    /\ messages'[Len(messages')].role = "tool"
    /\ messages'[Len(messages')].content = "error"

\* C34: an error raised while a dispatched tool executes (the request to
\* /agent/state, /agent/event or /agent/commit fails, or the consent
\* argument is missing) does not abort the turn: the call gets an error tool
\* result under its id, no response is sent, committed keeps its value, the
\* next call of the message is dispatched if there is one, and otherwise
\* the loop goes on to the next engine call.
C34_ToolErrorDoesNotAbort ==
    [][ DispatchFailed =>
          /\ messages' = Append(messages, messages'[Len(messages')])
          /\ messages'[Len(messages')].tool_call_id =
                responseMessage.tool_calls[callIdx].id
          /\ response' = response
          /\ response = NoResponse
          /\ committed' = committed
          /\ IF callIdx < Len(responseMessage.tool_calls)
             THEN pc' = "dispatch" /\ callIdx' = callIdx + 1
             ELSE pc' = "engine" ]_vars

\* a turn whose first tool call failed and whose second, a commit, went
\* through, answered 200 with committed true
C34_Witness ==
    /\ pc = "done"
    /\ response.status = 200
    /\ response.committed
    /\ Len(ToolMsgs) = 2
    /\ ToolMsgs[1].content = "error"
    /\ ToolMsgs[2].content = "committed"

\* a commit without a consent object, in a turn with consent, got an error
\* result and the turn answered 200
C34_WitnessNoConsentArgument ==
    /\ pc = "done"
    /\ response.status = 200
    /\ hasConsent
    /\ toolTrace # <<>>
    /\ toolTrace[1].function = "commit_agent_decision"
    /\ toolTrace[1].arguments.consent = "absent"
    /\ ToolMsgs[1].content = "error"
    /\ commitRequests = 0

-----------------------------------------------------------------------------
(* A chat turn that fails after it started *)

\* the turn ends in this step with a 500, after it had started
TurnFails ==
    /\ pc \in {"engine", "dispatch", "analyze"}
    /\ pc' = "done"
    /\ response'.status = 500

\* C35: a chat turn has no rollback: no step of it removes or changes a row
\* of the table, the step in which the turn fails with 500 (an engine call
\* or the final analysis failed) leaves the table as it is, with the user
\* message, the agent events and the committed decisions written before,
\* and the 500 response has no committed and no tool_trace.
C35_NoRollback ==
    [][ /\ Len(store') >= Len(store)
        /\ SubSeq(store', 1, Len(store)) = store
        /\ TurnFails =>
             /\ store' = store
             /\ response' = ErrorResponse(500)
             /\ ~response'.committed
             /\ response'.tool_trace = <<>> ]_vars

\* the final analysis failed after the turn had stored the user message,
\* an agent event and a decision: the three rows are in the table and the
\* 500 response says nothing of them
C35_Witness ==
    /\ pc = "done"
    /\ response.status = 500
    /\ analysis \in {"history_error", "engine_error", "parse_error", "insert_error"}
    /\ committed
    /\ Len(toolTrace) = 2
    /\ store = << UserMessageEntry, EventPayload(JSONparse("{}")),
                  CommitPayload(JSONparse("{consent}")) >>
    /\ ~response.committed
    /\ response.tool_trace = <<>>

\* a follow-up engine call failed after a decision was committed
C35_WitnessEngine ==
    /\ pc = "done"
    /\ response.status = 500
    /\ analysis = "none"
    /\ engineCalls = 2
    /\ committed
    /\ store # <<>>
    /\ store[Len(store)].entry_type = "decision"
    /\ ~response.committed

-----------------------------------------------------------------------------
(* What a failing getValidAccessToken leaves behind *)

\* invocation c takes a step before its saveTokens call
StepsBeforeSave(c) ==
    /\ callers'[c] # callers[c]
    /\ callers[c].pc \in {"idle", "check", "refresh"}

\* C36: an invocation of getValidAccessToken that fails because there is no
\* record or because the provider rejects the refresh grant (or the request
\* throws) leaves the stored record as it was: no step of an invocation
\* before its saveTokens call writes the record, and within
\* getValidAccessToken the record is written only by the saveTokens call
\* that follows a refresh response with status 0.
C36_FailedRefreshLeavesRecord ==
    [][ /\ \A c \in Callers : StepsBeforeSave(c) => tokenRecord' = tokenRecord
        /\ (tokenRecord' # tokenRecord /\ callback' = callback) =>
              \E c \in Callers :
                 /\ callers[c].pc = "save"
                 /\ callers[c].answer = "ok"
                 /\ callers'[c].saved
                 /\ tokenRecord'.access_token = callers[c].data ]_vars

\* an invocation found the stored record expired, the provider rejected its
\* grant, and the record is the one it read
C36_Witness ==
    \E c \in Callers :
       /\ callers[c].pc = "done"
       /\ callers[c].result = "refresh_failed"
       /\ callers[c].answer = "rejected"
       /\ callers[c].tokens = StoredRecord
       /\ tokenRecord = StoredRecord
       /\ tokenWrites = <<>>

\* an invocation found no record and there is none afterwards
C36_WitnessNoRecord ==
    \E c \in Callers :
       /\ callers[c].pc = "done"
       /\ callers[c].result = "not_authenticated"
       /\ tokenRecord = NoTokens

-----------------------------------------------------------------------------
(* Two /health/daily polls one after the other *)

\* the next request to /health/daily arrives after the answer of a poll that
\* triggered and whose analysis was stored; polls[1] keeps what that poll
\* had at its trigger block
DailyNext ==
    /\ dpc = "done"
    /\ dailyAnalysis = "ok"
    /\ polls[1].pc = "idle"
    /\ polls' = [polls EXCEPT ![1] =
                    [pc |-> "done", snapshot |-> snapshot,
                     seen |-> recentMeasurements,
                     trigger |-> shouldTriggerAgent, analysis |-> dailyAnalysis]]
    /\ dpc' = "idle"
    /\ measureRes' = NoProviderResponse
    /\ sleepRes' = NoProviderResponse
    /\ snapshot' = EmptySnapshot
    /\ dataPoints' = <<>>
    /\ recentMeasurements' = <<>>
    /\ shouldTriggerAgent' = FALSE
    /\ dailyResponse' = NoDailyResponse
    /\ dailyAnalysis' = "none"
    /\ UNCHANGED <<store, apiKey, chatVars, direct, writerVars, tokenVars,
                   analyzer, stateReads>>

\* provider answers of the two polls: at most one measurement group each
SequentialMeasureResponses == {res \in MeasureResponses : Len(res.measuregrps) <= 1}

InitSequential ==
    /\ store = <<>>
    /\ apiKey = TRUE
    /\ ChatIdle
    /\ DailyIdle
    /\ SideIdle

NextSequential ==
    \/ \E dateValid \in BOOLEAN, tokenOk \in BOOLEAN : DailyStart(dateValid, tokenOk)
    \/ \E res \in SequentialMeasureResponses : MeasureFetch(res)
    \/ \E res \in SleepResponses : SleepFetch(res)
    \/ \E dbOk \in BOOLEAN : DetectChange(dbOk)
    \/ \E outcome \in AnalyzerOutcomes : DailyAnalyze(outcome)
    \/ DailyNext

SpecSequential == InitSequential /\ [][NextSequential]_vars

\* the poll before the current one triggered, stored its entry, and the
\* current poll derived the same snapshot from the provider's data
FollowsSameData ==
    /\ polls[1].pc = "done"
    /\ polls[1].trigger
    /\ polls[1].analysis = "ok"
    /\ snapshot = polls[1].snapshot

\* C37, first sentence: a /health/daily request changes the store in one
\* step only, the analysis of a triggered poll that succeeded, and that step
\* appends one entry with source withings, entry_type measurement and the
\* returned snapshot as its metrics.
C37_OneEntryPerPoll ==
    [][ store' # store =>
          /\ dpc = "analyze"
          /\ dpc' = "done"
          /\ shouldTriggerAgent
          /\ dailyAnalysis' = "ok"
          /\ Len(store') = Len(store) + 1
          /\ SubSeq(store', 1, Len(store)) = store
          /\ store'[Len(store')].source = "withings"
          /\ store'[Len(store')].entry_type = "measurement"
          /\ store'[Len(store')].metrics = snapshot
          /\ dailyResponse'.snapshot = snapshot ]_vars

\* C37: a /health/daily request appends at most one entry, only when the
\* detector triggered and the analysis succeeded, with source withings,
\* entry_type measurement and the returned snapshot as metrics; and a poll
\* that follows a stored triggered poll and has the same data does not
\* trigger and leaves the store unchanged.
C37_SamePollDoesNotRepeat ==
    /\ C37_OneEntryPerPoll
    /\ [][ (dpc = "detect" /\ FollowsSameData) =>
             (~shouldTriggerAgent' /\ dpc' = "done" /\ store' = store) ]_vars
    /\ []( (dpc = "done" /\ FollowsSameData) => Len(store) = 1 )

\* the second sentence for polls whose read of the latest measurement entry
\* gave the entry of the poll before
C37_SamePollDoesNotRepeatWhenRead ==
    /\ [][ (dpc = "detect" /\ FollowsSameData /\ recentMeasurements' # <<>>) =>
             (~shouldTriggerAgent' /\ dpc' = "done" /\ store' = store) ]_vars
    /\ []( (dpc = "done" /\ FollowsSameData /\ recentMeasurements # <<>>) =>
             Len(store) = 1 )

\* a second poll with the same data that did not trigger
C37_WitnessQuiet ==
    /\ dpc = "done"
    /\ FollowsSameData
    /\ snapshot # EmptySnapshot
    /\ recentMeasurements = << store[1] >>
    /\ ~shouldTriggerAgent
    /\ Len(store) = 1

\* a second poll with the same data that stored a second entry
C37_WitnessRepeated ==
    /\ dpc = "done"
    /\ FollowsSameData
    /\ recentMeasurements = <<>>
    /\ dailyAnalysis = "ok"
    /\ Len(store) = 2
    /\ store[2].metrics = store[1].metrics

====
